---------------------------- MODULE Spec2Model ----------------------------
(***************************************************************************)
(* A model of the Google Maps scraping pipeline of outreach_orchestrator:  *)
(* the command-line pipeline (src/modules/maps_scraper/scraper.js) and the *)
(* server's runScraper (src/unnamed/part_001).  One run is one sequential  *)
(* async flow; every await is a step of the model.                         *)
(*                                                                         *)
(* Texts that the code parses are sequences of one-character strings.      *)
(* JavaScript's null and undefined are the tuples Null and Undefined,      *)
(* which no text equals.  Listing URLs are numbers (only their identity    *)
(* matters to the code); NullHref is a missing link target.                *)
(***************************************************************************)
EXTENDS Integers, Sequences, FiniteSets, TLC

VARIABLES
    variant,      \* "cli" (scraper.js) or "server" (runScraper)
    res,          \* the server's response to the scrape request
    prev,         \* the run that is not the current one: the other pipeline's first run on
                  \* the query, or the locals of the overlapping request that awaits
    pc,           \* position of the flow
    outcome,      \* "running", "ok", "fatal" (outer catch), "crashed" (thrown before the
                  \* try) or "rejected" (the request body did not parse)
    browser,      \* "none", "open" or "closed"
    thrown,       \* the operations that threw for a cause outside the page: position, URL index
    feed,         \* link targets of the articles the query's feed can render
    rendered,     \* number of articles rendered now
    nResults,     \* results.length of the current scroll iteration
    scrolls,      \* scroll attempts so far (saturating at ScrollCap)
    urls,         \* the Listing Resolver's output
    idx,          \* number of URLs whose pass has begun
    dom,          \* snapshot of the listing page loaded in the primary page
    data,         \* the record under construction
    rv,           \* the Review Harvester's locals
    primary,      \* the primary page: location, active view, scrolls of the view
    page2,        \* the email step's secondary page: "none", "open" or "closed"
    openPages,    \* secondary pages the email step opened and has not closed
    resultsData,  \* the accumulator
    dropped,      \* indices of URLs whose pass ended in the listing-level catch
    csvFile,      \* results.csv: whether this run wrote it, and its rows
    jsonFile      \* results.json: whether this run wrote it, and its records

runVars == <<variant, res, prev, outcome, browser, thrown>>

resolverVars == <<feed, rendered, nResults, scrolls, urls>>

passVars == <<idx, dom, data, rv, primary>>

emailVars == <<page2, openPages>>

outVars == <<resultsData, dropped, csvFile, jsonFile>>

vars == <<pc, runVars, resolverVars, passVars, emailVars, outVars>>

-----------------------------------------------------------------------------
(* Program constants and bounds *)

MAX_RESULTS == 10

ReviewCap == 10

ReviewScrolls == 3

ExpandCap == 10

\* longest feed of the Listing Resolver's specification
FeedMax == 11

\* articles of a feed that repeat a link target or have none
MaxNoise == 2

\* longest feed of a whole run
ListMax == 2

\* listing URLs the directory knows in a whole run
UrlMax == 3

\* most review elements of a page of the Review Harvester's specification
RevMax == 12

\* most review elements of such a page that hold a time only
MaxBlank == 1

\* most name-like fragments in the review texts of such a page
FragMax == 2

\* most tokens in the website content of the Email Harvester's specification
SiteMax == 2

\* most tagged buttons of a page of the Field Resolver's specification
BtnMax == 3

\* operations that may throw in one run
MaxFaults == 1

\* saturation of the scroll-attempt counter
ScrollCap == 2

-----------------------------------------------------------------------------
(* JavaScript values *)

Null == <<"null">>

Undefined == <<"undefined">>

NullHref == 0

\* undefined where a list of texts is expected
NoList == <<Undefined>>

\* an export file this run has not written
NotWritten == [written |-> FALSE, rows |-> <<>>]

Written(rows) == [written |-> TRUE, rows |-> rows]

\* JavaScript truthiness of a string-or-null value
Truthy(v) == v # Null /\ v # Undefined /\ v # <<>>

\* a || b
Or(a, b) == IF Truthy(a) THEN a ELSE b

Min(a, b) == IF a < b THEN a ELSE b

Range(s) == {s[i] : i \in 1..Len(s)}

\* Array.prototype.includes
Includes(s, x) == \E i \in 1..Len(s) : s[i] = x


-----------------------------------------------------------------------------
(* Session Navigator and Listing Resolver *)

\* number of distinct listing URLs among the first n articles of f
Distinct(f, n) == Cardinality({f[i] : i \in 1..n} \ {NullHref})

\* what the next article of a feed may link to: a URL not seen before (URLs are
\* numbered in order of first appearance), or, while the feed has fewer than
\* MaxNoise such articles, no target, the first URL again or the last URL again
NextHrefs(f) ==
    LET k == Distinct(f, Len(f))
    IN  {k + 1} \cup
        (IF Len(f) - k < MaxNoise
         THEN {NullHref} \cup (IF k > 0 THEN {1, k} ELSE {})
         ELSE {})

RECURSIVE FeedsOfLen(_)
FeedsOfLen(n) ==
    IF n = 0 THEN {<<>>}
    ELSE UNION {{Append(f, h) : h \in NextHrefs(f)} : f \in FeedsOfLen(n - 1)}

\* the feeds of the Listing Resolver's specification
ResolverFeeds == UNION {FeedsOfLen(n) : n \in 0..FeedMax}

\* the feeds of a whole run: any link targets, at most ListMax articles
RunFeeds == UNION {[1..n -> 0..UrlMax] : n \in 0..ListMax}

\* a collection loop that pushes every link target, seen before or not
RECURSIVE CollectFromNoDedup(_, _, _)
CollectFromNoDedup(articles, i, acc) ==
    IF i > Len(articles) THEN acc
    ELSE LET href == articles[i]
             acc2 == IF href # NullHref THEN Append(acc, href) ELSE acc
         IN  IF Len(acc2) >= MAX_RESULTS THEN acc2
             ELSE CollectFromNoDedup(articles, i + 1, acc2)

\* for (const article of articles) { href = getAttribute('href');
\*   if (href && !urls.includes(href)) urls.push(href);
\*   if (urls.length >= MAX_RESULTS) break; }
RECURSIVE CollectFrom(_, _, _)
CollectFrom(articles, i, acc) ==
    IF i > Len(articles) THEN acc
    ELSE LET href == articles[i]
             acc2 == IF href # NullHref /\ ~Includes(acc, href)
                     THEN Append(acc, href) ELSE acc
         IN  IF Len(acc2) >= MAX_RESULTS THEN acc2
             ELSE CollectFrom(articles, i + 1, acc2)

CollectUrls(articles) == CollectFrom(articles, 1, <<>>)

\* an operation of the flow throws
CanFail == Len(thrown) < MaxFaults

\* an outer catch that swallows the exception and goes on to the export
FatalCatchSwallows ==
    /\ pc' = "exportCsv"
    /\ outcome' = outcome
    /\ browser' = browser
    /\ thrown' = Append(thrown, [at |-> pc, idx |-> idx])

\* the outer catch: console.error('Fatal error'); await browser.close()
\* (the server's runScraper rethrows after closing)
FatalCatch ==
    /\ pc' = "done"
    /\ outcome' = "fatal"
    /\ browser' = "closed"
    /\ thrown' = Append(thrown, [at |-> pc, idx |-> idx])

\* no first run: the feed that the directory serves for the query is kept for a
\* second one
NoRun(f) == [variant |-> "none", feed |-> f, thrown |-> <<>>, urls |-> <<>>,
             resultsData |-> <<>>]

\* nothing was written to res
NoResponse == [ended |-> 0, status |-> 0, success |-> FALSE, count |-> -1, error |-> ""]

\* req.on('end'): const { query } = JSON.parse(body), then runScraper(query); a body
\* that is not JSON, or is the JSON null, throws into the handler's catch
Parse ==
    /\ pc = "request"
    /\ \/ /\ pc' = "launch"
          /\ UNCHANGED <<outcome, thrown>>
       \/ /\ pc' = "done"
          /\ outcome' = "rejected"
          /\ thrown' = Append(thrown, [at |-> pc, idx |-> idx])
    /\ UNCHANGED <<variant, res, prev, browser, resolverVars, passVars, emailVars, outVars>>

\* chromium.launch()
Launch ==
    /\ pc = "launch"
    /\ pc' = "newContext"
    /\ browser' = "open"
    /\ UNCHANGED <<variant, res, prev, outcome, thrown, resolverVars, passVars, emailVars, outVars>>

\* browser.newContext() and context.newPage() run before the try block: a failure
\* there is an unhandled rejection and nothing closes the browser
NewContext ==
    /\ pc \in {"newContext", "newPage"}
    /\ \/ /\ pc' = IF pc = "newContext" THEN "newPage" ELSE "gotoRoot"
          /\ UNCHANGED <<outcome, thrown>>
       \/ /\ CanFail
          /\ pc' = "done"
          /\ outcome' = "crashed"
          /\ thrown' = Append(thrown, [at |-> pc, idx |-> idx])
    /\ UNCHANGED <<variant, res, prev, browser, resolverVars, passVars, emailVars, outVars>>

\* page.goto(root); page.fill(query); page.keyboard.press('Enter'): the next
\* position, or the outer catch
SessionStep ==
    /\ pc \in {"gotoRoot", "fill", "press"}
    /\ \/ /\ pc' = CASE pc = "gotoRoot" -> "consent"
                     [] pc = "fill" -> "press"
                     [] OTHER -> "waitFeed"
          /\ primary' = IF pc = "gotoRoot" THEN [primary EXCEPT !.loc = 0] ELSE primary
          /\ UNCHANGED <<outcome, browser, thrown>>
       \/ /\ CanFail
          /\ FatalCatch
          /\ UNCHANGED primary
    /\ UNCHANGED <<variant, res, prev, idx, dom, data, rv, resolverVars, emailVars, outVars>>

\* try { page.click('Accept all', 3 s) } catch (e) { }: absent or not, go on
Consent ==
    /\ pc = "consent"
    /\ pc' = "fill"
    /\ UNCHANGED <<runVars, resolverVars, passVars, emailVars, outVars>>

\* page.waitForSelector('div[role="feed"]', 10 s): the container appears with some
\* of the articles rendered, or the wait times out
WaitFeed ==
    /\ pc = "waitFeed"
    /\ \/ /\ \E n \in 0..Len(feed) : rendered' = n
          /\ pc' = "scrollQuery"
          /\ UNCHANGED <<outcome, browser, thrown>>
       \/ /\ CanFail
          /\ FatalCatch
          /\ UNCHANGED rendered
    /\ UNCHANGED <<variant, res, prev, feed, nResults, scrolls, urls, passVars, emailVars, outVars>>

\* results = page.$$('div[role="article"]'); if (results.length >= MAX_RESULTS) break
ScrollQuery ==
    /\ pc = "scrollQuery"
    /\ \/ /\ nResults' = rendered
          /\ pc' = IF rendered >= MAX_RESULTS THEN "collect" ELSE "scrollStep"
          /\ UNCHANGED <<outcome, browser, thrown>>
       \/ /\ CanFail
          /\ FatalCatch
          /\ UNCHANGED nResults
    /\ UNCHANGED <<variant, res, prev, feed, rendered, scrolls, urls, passVars, emailVars, outVars>>

\* a last statement of the loop that goes on scrolling an empty feed
KeepScrollingEmpty(n) == n < MAX_RESULTS

\* if (results.length > 0 && results.length < MAX_RESULTS) continue; break
KeepScrolling(n) == n > 0 /\ n < MAX_RESULTS

\* feed.scrollTo(0, scrollHeight); waitForTimeout(2000): more of the feed may render;
\* then the loop's last statement, on the count taken before the scroll
ScrollStep ==
    /\ pc = "scrollStep"
    /\ \/ /\ \E n \in rendered..Len(feed) : rendered' = n
          /\ scrolls' = Min(scrolls + 1, ScrollCap)
          /\ pc' = IF KeepScrolling(nResults) THEN "scrollQuery" ELSE "collect"
          /\ nResults' = 0
          /\ UNCHANGED <<outcome, browser, thrown>>
       \/ /\ CanFail
          /\ FatalCatch
          /\ UNCHANGED <<rendered, scrolls, nResults>>
    /\ UNCHANGED <<variant, res, prev, feed, urls, passVars, emailVars, outVars>>

\* a listing loop that goes on to the export after its first pass
ExportAfterFirst(list, i) == IF i <= Len(list) /\ i <= 1 THEN "goto" ELSE "exportCsv"

\* for (const url of urls): the first position of the pass of urls[i], or the
\* export when the URLs are exhausted
PassOrExport(list, i) == IF i <= Len(list) THEN "goto" ELSE "exportCsv"

\* listings = page.$$('a[href*="/maps/place/"]') and its loop, which keeps nothing;
\* articles = page.$$('div[role="article"] a[href*="/maps/place/"]') and the
\* collection loop; a query or a getAttribute that throws ends in the outer catch
Collect ==
    /\ pc = "collect"
    /\ \/ /\ urls' = CollectUrls(SubSeq(feed, 1, rendered))
          /\ idx' = 1
          /\ pc' = PassOrExport(urls', 1)
          /\ UNCHANGED <<outcome, browser, thrown>>
       \/ /\ CanFail
          /\ FatalCatch
          /\ UNCHANGED <<urls, idx>>
    /\ UNCHANGED <<variant, res, prev, feed, rendered, nResults, scrolls, dom, data, rv, primary,
                   emailVars, outVars>>

-----------------------------------------------------------------------------
(* Texts: sequences of one-character strings *)

UpperSeq == <<"A","B","C","D","E","F","G","H","I","J","K","L","M",
              "N","O","P","Q","R","S","T","U","V","W","X","Y","Z">>

LowerSeq == <<"a","b","c","d","e","f","g","h","i","j","k","l","m",
              "n","o","p","q","r","s","t","u","v","w","x","y","z">>

\* [A-Z], [a-z], \d, \s and \w of the code's regular expressions
Upper == Range(UpperSeq)

Lower == Range(LowerSeq)

Digit == {"0","1","2","3","4","5","6","7","8","9"}

Space == {" ", "\t", "\n", "\r"}

WordChar == Upper \cup Lower \cup Digit \cup {"_"}

\* what . does not match
LineTerminator == {"\n", "\r"}

\* String.prototype.toLowerCase
LowerChar(c) ==
    IF c \in Upper THEN LowerSeq[CHOOSE i \in 1..26 : UpperSeq[i] = c] ELSE c

ToLowerCase(s) == [i \in 1..Len(s) |-> LowerChar(s[i])]

\* String.prototype.includes
Contains(s, sub) ==
    \E i \in 0..(Len(s) - Len(sub)) : SubSeq(s, i + 1, i + Len(sub)) = sub

\* String.prototype.endsWith
EndsWith(s, suf) ==
    Len(suf) <= Len(s) /\ SubSeq(s, Len(s) - Len(suf) + 1, Len(s)) = suf

\* the first index at or after i whose character is not in class
RECURSIVE RunEnd(_, _, _)
RunEnd(s, i, class) ==
    IF i <= Len(s) /\ s[i] \in class THEN RunEnd(s, i + 1, class) ELSE i

\* the last index at or before i whose character is not in class
RECURSIVE RunStart(_, _, _)
RunStart(s, i, class) ==
    IF i >= 1 /\ s[i] \in class THEN RunStart(s, i - 1, class) ELSE i

\* String.prototype.trim
Trim(s) == SubSeq(s, RunEnd(s, 1, Space), RunStart(s, Len(s), Space))

\* Array.prototype.join
RECURSIVE Join(_, _)
Join(list, sep) ==
    IF list = <<>> THEN <<>>
    ELSE IF Len(list) = 1 THEN list[1]
    ELSE list[1] \o sep \o Join(Tail(list), sep)

\* the characters of s that are in class, in order
RECURSIVE KeepIn(_, _)
KeepIn(s, class) ==
    IF s = <<>> THEN <<>>
    ELSE (IF s[1] \in class THEN <<s[1]>> ELSE <<>>) \o KeepIn(Tail(s), class)

\* [...new Set(list)]: first occurrences, in order
RECURSIVE Unique(_)
Unique(list) ==
    IF list = <<>> THEN <<>>
    ELSE LET init == Unique(SubSeq(list, 1, Len(list) - 1))
             last == list[Len(list)]
         IN  IF Includes(init, last) THEN init ELSE Append(init, last)

-----------------------------------------------------------------------------
(* Field Resolver: rating and review count *)

\* aria.split(' ')[0]
FirstWord(s) == SubSeq(s, 1, RunEnd(s, 1, {c \in Range(s) : c # " "}) - 1)

\* text.replace(/[^0-9]/g, '')
DigitsOf(s) == KeepIn(s, Digit)

-----------------------------------------------------------------------------
(* Category normalisation *)

MentionedIn == <<"m","e","n","t","i","o","n","e","d"," ","i","n">>

\* \s*mentioned in (\d+) reviews?$ matched from index i of s: the digits, or Null
TailCount(s, i) ==
    LET a == RunEnd(s, i, Space)
        b == a + Len(MentionedIn) + 1
        c == RunEnd(s, b, Digit)
    IN  IF /\ SubSeq(s, a, b - 1) = MentionedIn \o <<" ">>
           /\ c > b
           /\ SubSeq(s, c, Len(s)) \in {<<" ","r","e","v","i","e","w">>, <<" ","r","e","v","i","e","w","s">>}
        THEN SubSeq(s, b, c - 1)
        ELSE Null

\* the lengths of the subjects with which /^(.+?),\s*mentioned in (\d+) reviews?$/
\* can match s
SubjectEnds(s) ==
    {i \in 1..(Len(s) - 1) :
        /\ \A k \in 1..i : s[k] \notin LineTerminator
        /\ s[i + 1] = ","
        /\ TailCount(s, i + 2) # Null}

\* categoryText.match(...): the lazy group takes the shortest subject
ChipMatch(s) ==
    IF SubjectEnds(s) = {} THEN Null
    ELSE LET i == CHOOSE i \in SubjectEnds(s) : \A j \in SubjectEnds(s) : i <= j
         IN  <<SubSeq(s, 1, i), TailCount(s, i + 2)>>

\* the entries one chip adds to reviewCategories
ChipEntries(categoryText) ==
    IF Truthy(categoryText) /\ Contains(categoryText, MentionedIn)
    THEN LET match == ChipMatch(categoryText)
         IN  IF match # Null
             THEN <<match[1] \o <<" ","(">> \o match[2] \o <<")">>>>
             ELSE <<Trim(categoryText)>>
    ELSE <<>>

\* for (const btn of categoryButtons): categoryText = ariaLabel || text
RECURSIVE ScanChips(_)
ScanChips(chips) ==
    IF chips = <<>> THEN <<>>
    ELSE ChipEntries(Or(chips[1].aria, chips[1].text)) \o ScanChips(Tail(chips))

-----------------------------------------------------------------------------
(* Entity Extractor: mentioned names *)

\* /\b[A-Z][a-z]{2,}\s+[A-Z][a-z]{2,}\b/ matched from index i of s: the index
\* after the match, or 0.  Every repetition is greedy and a shorter one never
\* lets the rest match, so the match is the one with the longest runs.
NameEnd(s, i) ==
    LET a == RunEnd(s, i + 1, Lower)
        b == RunEnd(s, a, Space)
        c == RunEnd(s, b + 1, Lower)
    IN  IF /\ i <= Len(s)
           /\ s[i] \in Upper
           /\ (i = 1 \/ s[i - 1] \notin WordChar)
           /\ a - (i + 1) >= 2
           /\ b > a
           /\ b <= Len(s)
           /\ s[b] \in Upper
           /\ c - (b + 1) >= 2
           /\ (c > Len(s) \/ s[c] \notin WordChar)
        THEN c
        ELSE 0

\* text.match(namePattern) with the g flag: the matches from index i on, left to
\* right, without overlap
RECURSIVE NameMatches(_, _)
NameMatches(s, i) ==
    IF i > Len(s) THEN <<>>
    ELSE IF NameEnd(s, i) # 0
         THEN <<SubSeq(s, i, NameEnd(s, i) - 1)>> \o NameMatches(s, NameEnd(s, i))
         ELSE NameMatches(s, i + 1)

excludeWords == {
    <<"N","o","r","t","h"," ","B","e","a","c","h">>, <<"S","a","n"," ","F","r","a","n","c","i","s","c","o">>, <<"N","e","w"," ","Y","o","r","k">>, <<"L","o","s"," ","A","n","g","e","l","e","s">>,
    <<"F","o","r","t"," ","W","o","r","t","h">>, <<"D","a","l","l","a","s">>, <<"S","o","u","t","h"," ","B","a","y">>, <<"E","a","s","t"," ","B","a","y">>, <<"W","e","s","t"," ","C","o","a","s","t">>,
    <<"E","a","s","t"," ","C","o","a","s","t">>, <<"G","o","o","g","l","e"," ","M","a","p","s">>, <<"Y","e","l","p"," ","R","e","v","i","e","w","s">>, <<"F","a","c","e","b","o","o","k"," ","P","a","g","e">>,
    <<"I","n","s","t","a","g","r","a","m"," ","A","c","c","o","u","n","t">>, <<"T","h","e"," ","G","o","d","f","a","t","h","e","r">>, <<"T","h","e"," ","B","e","a","t","l","e","s">>, <<"T","h","e"," ","R","o","l","l","i","n","g">>,
    <<"M","o","n","d","a","y"," ","M","o","r","n","i","n","g">>, <<"T","u","e","s","d","a","y"," ","N","i","g","h","t">>, <<"W","e","d","n","e","s","d","a","y"," ","E","v","e","n","i","n","g">>, <<"T","h","a","n","k"," ","Y","o","u">>,
    <<"B","e","s","t"," ","R","e","g","a","r","d","s">>, <<"K","i","n","d"," ","R","e","g","a","r","d","s">>, <<"V","e","r","y"," ","G","o","o","d">>, <<"H","i","g","h","l","y"," ","R","e","c","o","m","m","e","n","d">>,
    <<"P","e","r","f","e","c","t"," ","B","a","l","a","n","c","e">>, <<"T","a","x"," ","S","e","r","v","i","c","e","s">>, <<"T","h","e"," ","B","l","a","c","k">>, <<"B","o","o","k","k","e","e","p","i","n","g"," ","S","e","r","v","i","c","e","s">>,
    <<"T","a","x"," ","S","e","r","v","i","c","e">>, <<"B","o","o","k","k","e","e","p","i","n","g"," ","S","e","r","v","i","c","e">>, <<"A","c","c","o","u","n","t","i","n","g"," ","S","e","r","v","i","c","e","s">>,
    <<"A","c","c","o","u","n","t","i","n","g"," ","S","e","r","v","i","c","e">>, <<"F","i","n","a","n","c","i","a","l"," ","S","e","r","v","i","c","e","s">>, <<"F","i","n","a","n","c","i","a","l"," ","S","e","r","v","i","c","e">>,
    <<"B","u","s","i","n","e","s","s"," ","S","e","r","v","i","c","e","s">>, <<"B","u","s","i","n","e","s","s"," ","S","e","r","v","i","c","e">>, <<"T","a","x"," ","P","r","e","p","a","r","a","t","i","o","n">>,
    <<"T","a","x"," ","C","o","n","s","u","l","t","a","n","t">>, <<"T","a","x"," ","C","o","n","s","u","l","t","a","n","t","s">>, <<"T","a","x"," ","R","e","t","u","r","n">>, <<"I","n","c","o","m","e"," ","T","a","x">>,
    <<"T","a","x"," ","S","e","a","s","o","n">>, <<"T","a","x"," ","R","e","t","u","r","n","s">>, <<"T","a","x"," ","D","e","d","u","c","t","i","o","n","s">>, <<"B","a","l","a","n","c","e"," ","S","h","e","e","t">>,
    <<"P","r","o","f","i","t"," ","L","o","s","s">>, <<"C","a","s","h"," ","F","l","o","w">>, <<"G","e","n","e","r","a","l"," ","L","e","d","g","e","r">> }

\* if (!excludeWords.has(trimmedName) && !trimmedName.includes('\n') &&
\*     !data.mentionedNames.includes(trimmedName))
AcceptName(names, trimmedName) ==
    /\ trimmedName \notin excludeWords
    /\ ~Contains(trimmedName, <<"\n">>)
    /\ ~Includes(names, trimmedName)

\* for (const name of matches): push the accepted trimmed names
RECURSIVE AddNames(_, _)
AddNames(names, matches) ==
    IF matches = <<>> THEN names
    ELSE LET trimmedName == Trim(matches[1])
         IN  AddNames(IF AcceptName(names, trimmedName)
                      THEN Append(names, trimmedName) ELSE names,
                      Tail(matches))

\* for (const review of data.reviews) if (review.text) ...
RECURSIVE NamesFrom(_, _)
NamesFrom(names, reviews) ==
    IF reviews = <<>> THEN names
    ELSE NamesFrom(IF Truthy(reviews[1].text)
                   THEN AddNames(names, NameMatches(reviews[1].text, 1))
                   ELSE names,
                   Tail(reviews))

MentionedNames(reviews) == NamesFrom(<<>>, reviews)

-----------------------------------------------------------------------------
(* Email Harvester: the filter *)

\* [a-zA-Z0-9._-]
EmailChar == Upper \cup Lower \cup Digit \cup {".", "_", "-"}

\* /[a-zA-Z0-9._-]+@[a-zA-Z0-9._-]+\.[a-zA-Z0-9._-]+/ matched from index i of s:
\* the index after the match, or 0.  The part after @ is the whole run of address
\* characters, which must have a dot that is neither its first nor its last one.
EmailEnd(s, i) ==
    LET a == RunEnd(s, i, EmailChar)
        b == RunEnd(s, a + 1, EmailChar)
    IN  IF /\ a > i
           /\ a <= Len(s)
           /\ s[a] = "@"
           /\ \E p \in (a + 2)..(b - 2) : s[p] = "."
        THEN b
        ELSE 0

\* content.match(emailRegex) with the g flag
RECURSIVE EmailMatches(_, _)
EmailMatches(s, i) ==
    IF i > Len(s) THEN <<>>
    ELSE IF EmailEnd(s, i) # 0
         THEN <<SubSeq(s, i, EmailEnd(s, i) - 1)>> \o EmailMatches(s, EmailEnd(s, i))
         ELSE EmailMatches(s, i + 1)

JunkExtensions == {<<".","p","n","g">>, <<".","j","p","g">>, <<".","j","p","e","g">>, <<".","g","i","f">>, <<".","c","s","s">>, <<".","j","s">>}

JunkSubstrings == {<<"s","e","n","t","r","y">>, <<"w","i","x">>, <<"n","o","d","e","_","m","o","d","u","l","e","s">>, <<"e","x","a","m","p","l","e",".","c","o","m">>,
                   <<"d","o","m","a","i","n",".","c","o","m">>}

\* a filter that tests the file extensions only
KeepEmailExtOnly(email) ==
    LET lower == ToLowerCase(email)
    IN  \A ext \in JunkExtensions : ~EndsWith(lower, ext)

\* the filter callback of uniqueEmails
KeepEmail(email) ==
    LET lower == ToLowerCase(email)
    IN  /\ \A ext \in JunkExtensions : ~EndsWith(lower, ext)
        /\ \A junk \in JunkSubstrings : ~Contains(lower, junk)

RECURSIVE FilterEmails(_)
FilterEmails(list) ==
    IF list = <<>> THEN <<>>
    ELSE (IF KeepEmail(list[1]) THEN <<list[1]>> ELSE <<>>) \o FilterEmails(Tail(list))

\* what the email step assigns to data.email for the content, or leaves as it is
\* when content.match returns null
EmailOf(content, email) ==
    LET emails == EmailMatches(content, 1)
    IN  IF emails = <<>> THEN email
        ELSE Join(FilterEmails(Unique(emails)), <<","," ">>)

-----------------------------------------------------------------------------
(* Listing pages: what the directory serves for a listing URL *)

\* a page with nothing on it
BlankPage ==
    [h1 |-> Undefined, buttons |-> <<>>, websiteHref |-> Undefined,
     starsAria |-> Undefined, textRating |-> Undefined,
     countText |-> Undefined, countFallback |-> Undefined,
     aboutTab |-> FALSE, content |-> <<>>,
     reviewsTab |-> FALSE, container |-> FALSE, loaded |-> 0, perScroll |-> 0,
     reviewEls |-> <<>>, chips |-> <<>>, site |-> <<>>]

\* a review element: reviewer (label and text of the reviewer element), stars,
\* short and full text (the full text shows once its See more button was clicked),
\* time; Undefined where the element has no such child
ReviewEl(aria, name, stars, short, full, time) ==
    [hasReviewer |-> name # Undefined, reviewerAria |-> aria, reviewerText |-> name,
     stars |-> stars, short |-> short, full |-> full, hasMore |-> short # full,
     time |-> time]

\* h1, tagged buttons and link, stars label, count in parentheses, about panel,
\* reviews (one loaded at first, one more per scroll), chips, website with addresses
PageA ==
    [BlankPage EXCEPT
     !.h1 = <<"C","a","f","e">>,
     !.buttons = <<[itemId |-> <<"a","d","d","r","e","s","s">>, aria |-> <<"A","d","d","r","e","s","s",":"," ","1"," ","M","a","i","n">>, text |-> <<"1"," ","M","a","i","n">>],
                   [itemId |-> <<"p","h","o","n","e",":","t","e","l",":","5","5","5">>, aria |-> Null, text |-> <<"5","5","5">>],
                   [itemId |-> <<"a","u","t","h","o","r","i","t","y">>, aria |-> <<"W","e","b","s","i","t","e">>, text |-> <<"c","a","f","e",".","c","o","m">>]>>,
     !.websiteHref = <<"h","t","t","p",":","/","/","c","a","f","e",".","c","o","m">>,
     !.starsAria = <<"4",".","5"," ","s","t","a","r","s">>,
     !.countText = <<"(","1",",","2","3","4",")">>,
     !.aboutTab = TRUE,
     !.content = <<"<","p",">","I","d","e","n","t","i","f","i","e","d"," ","a","s"," ","w","o","m","e","n","-","o","w","n","e","d","<","/","p",">">>,
     !.reviewsTab = TRUE, !.container = TRUE, !.loaded = 1, !.perScroll = 1,
     !.reviewEls = <<ReviewEl(Null, <<"A","n","n">>, <<"5"," ","s","t","a","r","s">>, <<"T","h","a","n","k","s",","," ","J","o","h","n">>,
                              <<"T","h","a","n","k","s",","," ","J","o","h","n"," ","D","o","e"," ","w","a","s"," ","g","r","e","a","t">>, <<"a"," ","w","e","e","k"," ","a","g","o">>),
                     ReviewEl(Null, Undefined, Undefined, Undefined, Undefined, <<"a"," ","d","a","y"," ","a","g","o">>),
                     ReviewEl(<<"B","o","b">>, <<"B">>, Undefined, <<"J","o","h","n"," ","D","o","e"," ","o","n"," ","G","o","o","g","l","e"," ","M","a","p","s">>,
                              <<"J","o","h","n"," ","D","o","e"," ","o","n"," ","G","o","o","g","l","e"," ","M","a","p","s">>, Undefined)>>,
     !.chips = <<[aria |-> <<"q","u","a","l","i","t","y",","," ","m","e","n","t","i","o","n","e","d"," ","i","n"," ","1","1"," ","r","e","v","i","e","w","s">>, text |-> <<"q","u","a","l","i","t","y">>],
                 [aria |-> Null, text |-> <<"H","o","t","e","l","s">>],
                 [aria |-> <<"p","r","i","c","e"," ","m","e","n","t","i","o","n","e","d"," ","i","n"," ","3"," ","r","e","v","i","e","w","s">>, text |-> <<"p","r","i","c","e">>]>>,
     !.site = <<"c","o","n","t","a","c","t","@","e","x","a","m","p","l","e",".","c","o","m"," ","i","n","f","o","@","r","e","a","l","b","i","z",".","c","o","m"," ","l","o","g","o","@","2","x",".","p","n","g">>]

\* a page whose heading yields no text and whose website link has no href; it
\* has nothing else
PageB == [BlankPage EXCEPT !.h1 = Null, !.websiteHref = Null]

\* no heading, website only as a button label, rating and count only as plain
\* texts, about panel without phrases, reviews view whose reviews never load,
\* navigational chips only, website without addresses
PageC ==
    [BlankPage EXCEPT
     !.buttons = <<[itemId |-> <<"a","u","t","h","o","r","i","t","y">>, aria |-> Null, text |-> <<"c",".","o","r","g">>]>>,
     !.textRating = <<"4",".","0">>,
     !.countFallback = <<"1","2"," ","r","e","v","i","e","w","s">>,
     !.aboutTab = TRUE,
     !.content = <<"<","p",">","A","b","o","u","t","<","/","p",">">>,
     !.reviewsTab = TRUE, !.container = TRUE,
     !.chips = <<[aria |-> Null, text |-> <<"N","e","a","r","b","y"," ","r","e","s","t","a","u","r","a","n","t","s">>]>>,
     !.site = <<"<","h","t","m","l",">","<","/","h","t","m","l",">">>]

Pages == <<PageA, PageB, PageC>>

PageOf(url) == Pages[((url - 1) % Len(Pages)) + 1]

-----------------------------------------------------------------------------
(* Field Resolver *)

\* const data = { url, name: '', ..., email: '' }; attributes is not a key yet
NewRecord(url) ==
    [url |-> url, name |-> <<>>, address |-> <<>>, phone |-> <<>>, website |-> <<>>,
     rating |-> <<>>, reviewCount |-> <<>>, attributes |-> NoList,
     reviews |-> <<>>, reviewCategories |-> <<>>, mentionedNames |-> <<>>,
     email |-> <<>>]

\* one button of the loop over button[data-item-id]
ApplyButton(d, btn) ==
    LET d1 == IF Contains(btn.itemId, <<"a","d","d","r","e","s","s">>)
              THEN [d EXCEPT !.address = Or(btn.aria, btn.text)] ELSE d
        d2 == IF Contains(btn.itemId, <<"p","h","o","n","e">>)
              THEN [d1 EXCEPT !.phone = Or(btn.aria, btn.text)] ELSE d1
    IN  IF Contains(btn.itemId, <<"a","u","t","h","o","r","i","t","y">>)
        THEN [d2 EXCEPT !.website = btn.text] ELSE d2

RECURSIVE ApplyButtons(_, _)
ApplyButtons(d, buttons) ==
    IF buttons = <<>> THEN d
    ELSE ApplyButtons(ApplyButton(d, buttons[1]), Tail(buttons))

\* a link step that keeps the label when the buttons gave one
ApplyLinkKeepsLabel(d, page) ==
    IF page.websiteHref # Undefined /\ d.website = <<>>
    THEN [d EXCEPT !.website = page.websiteHref] ELSE d

\* if (websiteLink) data.website = await websiteLink.getAttribute('href')
ApplyLink(d, page) ==
    IF page.websiteHref # Undefined THEN [d EXCEPT !.website = page.websiteHref] ELSE d

\* the stars label first, the plain decimal text second
ApplyRating(d, page) ==
    IF page.starsAria # Undefined THEN [d EXCEPT !.rating = FirstWord(page.starsAria)]
    ELSE IF page.textRating # Undefined THEN [d EXCEPT !.rating = page.textRating]
    ELSE d

\* the count in parentheses first, the "<N> reviews" text second
ApplyCount(d, page) ==
    IF page.countText # Undefined
    THEN [d EXCEPT !.reviewCount = DigitsOf(page.countText)]
    ELSE IF page.countFallback # Undefined
    THEN [d EXCEPT !.reviewCount = DigitsOf(page.countFallback)]
    ELSE d

\* the closed vocabulary of the about panel
AttributePhrases ==
    <<<<<<"I","d","e","n","t","i","f","i","e","d"," ","a","s"," ","w","o","m","e","n","-","o","w","n","e","d">>, <<"W","o","m","e","n","-","o","w","n","e","d">>>>,
      <<<<"I","d","e","n","t","i","f","i","e","d"," ","a","s"," ","v","e","t","e","r","a","n","-","o","w","n","e","d">>, <<"V","e","t","e","r","a","n","-","o","w","n","e","d">>>>,
      <<<<"I","d","e","n","t","i","f","i","e","d"," ","a","s"," ","B","l","a","c","k","-","o","w","n","e","d">>, <<"B","l","a","c","k","-","o","w","n","e","d">>>>,
      <<<<"I","d","e","n","t","i","f","i","e","d"," ","a","s"," ","L","a","t","i","n","o","-","o","w","n","e","d">>, <<"L","a","t","i","n","o","-","o","w","n","e","d">>>>>>

RECURSIVE AttributesFrom(_, _)
AttributesFrom(pageContent, i) ==
    IF i > Len(AttributePhrases) THEN <<>>
    ELSE (IF Contains(pageContent, AttributePhrases[i][1])
          THEN <<AttributePhrases[i][2]>> ELSE <<>>)
         \o AttributesFrom(pageContent, i + 1)

AttributesOf(pageContent) == AttributesFrom(pageContent, 1)

-----------------------------------------------------------------------------
(* Review Harvester *)

\* the locals of the harvester: scrolls done, review elements in the page, See
\* more buttons clicked, elements whose text is expanded, elements read
NoReviewState == [i |-> 0, visible |-> 0, clicks |-> 0, expanded |-> {}, read |-> 0]

\* page.$$('button[aria-label*="See more"]'): the elements in the page that have
\* one, in page order
RECURSIVE MoreButtons(_, _)
MoreButtons(page, n) ==
    IF n = 0 THEN <<>>
    ELSE MoreButtons(page, n - 1) \o
         (IF page.reviewEls[n].hasMore THEN <<n>> ELSE <<>>)

\* const review = {}; then reviewer, rating, text and time, each if its element
\* is there; upTo is the number of the four that are read before a call throws
ReadReview(el, expanded, upTo) ==
    [reviewer |-> IF upTo >= 1 /\ el.hasReviewer
                  THEN Or(el.reviewerAria, el.reviewerText) ELSE Undefined,
     rating   |-> IF upTo >= 2 THEN el.stars ELSE Undefined,
     text     |-> IF upTo >= 3 THEN (IF expanded THEN el.full ELSE el.short)
                  ELSE Undefined,
     time     |-> IF upTo >= 4 THEN el.time ELSE Undefined]

\* a check that lets every review in
RetainedAlways(review) == TRUE

\* if (review.reviewer || review.text || review.rating)
Retained(review) ==
    Truthy(review.reviewer) \/ Truthy(review.text) \/ Truthy(review.rating)

\* a cap test that lets one more review in
ReviewsFullLate(reviews) == Len(reviews) > ReviewCap

\* if (data.reviews.length >= 10) break
ReviewsFull(reviews) == Len(reviews) >= ReviewCap

-----------------------------------------------------------------------------
(* One listing's pass *)

\* the end of a pass (after the push or in the listing-level catch): on to the
\* next URL
EndPass ==
    /\ idx' = idx + 1
    /\ pc' = PassOrExport(urls, idx + 1)

\* a listing-level catch that ends the loop instead of moving to the next URL
ListingCatchAborts ==
    /\ dropped' = dropped \cup {idx}
    /\ idx' = idx
    /\ pc' = "exportCsv"
    /\ UNCHANGED <<resultsData, csvFile, jsonFile>>

\* catch (e) { console.error(`Error processing ${url}:`, e) } of the listing loop
ListingCatch ==
    /\ dropped' = dropped \cup {idx}
    /\ EndPass
    /\ UNCHANGED <<resultsData, csvFile, jsonFile>>

\* an email step that runs whatever the website is
EmailAlways(d) == "emailOpen"

\* if (data.website): the email step, or straight to the push
EmailOrPush(d) == IF Truthy(d.website) THEN "emailOpen" ELSE "push"

\* catch (e) { console.log('Error extracting reviews:', e.message) }: the reviews
\* block is left where it threw, the email step is next
ReviewsCatch(d) == pc' = EmailOrPush(d)

\* page.goto(url, { waitUntil: 'domcontentloaded' }); const data = {...}
Goto ==
    /\ pc = "goto"
    /\ \/ /\ dom' = PageOf(urls[idx])
          /\ data' = NewRecord(urls[idx])
          /\ rv' = NoReviewState
          /\ primary' = [loc |-> urls[idx], tab |-> "overview", scroll |-> 0]
          /\ feed' = <<>>
          /\ rendered' = 0
          /\ page2' = "none"
          /\ pc' = "name"
          /\ UNCHANGED <<idx, thrown, outVars>>
       \/ /\ CanFail
          /\ thrown' = Append(thrown, [at |-> pc, idx |-> idx])
          /\ ListingCatch
          /\ UNCHANGED <<dom, data, rv, primary, feed, rendered, page2>>
    /\ UNCHANGED <<variant, res, prev, outcome, browser, nResults, scrolls, urls, openPages>>

\* try { data.name = await page.textContent('h1') } catch (e) { }: without an h1
\* the call times out
Name ==
    /\ pc = "name"
    /\ \/ /\ data' = IF dom.h1 = Undefined THEN data ELSE [data EXCEPT !.name = dom.h1]
          /\ UNCHANGED thrown
       \/ /\ CanFail
          /\ thrown' = Append(thrown, [at |-> pc, idx |-> idx])
          /\ UNCHANGED data
    /\ pc' = "buttons"
    /\ UNCHANGED <<variant, res, prev, outcome, browser, idx, dom, rv, primary,
                   resolverVars, emailVars, outVars>>

\* the loop over button[data-item-id], then the a[data-item-id="authority"] link;
\* neither is inside a try of its own
Buttons ==
    /\ pc \in {"buttons", "website"}
    /\ \/ /\ data' = IF pc = "buttons" THEN ApplyButtons(data, dom.buttons)
                     ELSE ApplyLink(data, dom)
          /\ pc' = IF pc = "buttons" THEN "website" ELSE "rating"
          /\ UNCHANGED <<idx, thrown, outVars>>
       \/ /\ CanFail
          /\ thrown' = Append(thrown, [at |-> pc, idx |-> idx])
          /\ ListingCatch
          /\ UNCHANGED data
    /\ UNCHANGED <<variant, res, prev, outcome, browser, dom, rv, primary, resolverVars, emailVars>>

\* the first stage after the rating block: the about tab is read by scraper.js only
AfterCount == IF variant = "cli" THEN "attrs" ELSE "reviewsTab"

\* try { rating; review count } catch (e) { console.log(...) }
Rating ==
    /\ pc \in {"rating", "count"}
    /\ \/ /\ data' = IF pc = "rating" THEN ApplyRating(data, dom) ELSE ApplyCount(data, dom)
          /\ pc' = IF pc = "rating" THEN "count" ELSE AfterCount
          /\ UNCHANGED thrown
       \/ /\ CanFail
          /\ thrown' = Append(thrown, [at |-> pc, idx |-> idx])
          /\ pc' = AfterCount
          /\ UNCHANGED data
    /\ UNCHANGED <<variant, res, prev, outcome, browser, idx, dom, rv, primary,
                   resolverVars, emailVars, outVars>>

\* try { if (aboutTabBtn.count() > 0) { click; wait; data.attributes = ... } }
\* catch (e) { console.log(...) }
Attrs ==
    /\ pc = "attrs"
    /\ \/ /\ data' = IF dom.aboutTab
                     THEN [data EXCEPT !.attributes = AttributesOf(dom.content)]
                     ELSE data
          /\ primary' = IF dom.aboutTab THEN [primary EXCEPT !.tab = "about"] ELSE primary
          /\ UNCHANGED thrown
       \/ /\ CanFail
          /\ thrown' = Append(thrown, [at |-> pc, idx |-> idx])
          /\ UNCHANGED <<data, primary>>
    /\ pc' = "reviewsTab"
    /\ UNCHANGED <<variant, res, prev, outcome, browser, idx, dom, rv,
                   resolverVars, emailVars, outVars>>

\* reviewsTabBtn.count() > 0 ? click it : skip to the chips
ReviewsTab ==
    /\ pc = "reviewsTab"
    /\ \/ /\ pc' = IF dom.reviewsTab THEN "waitReview" ELSE "chips"
          /\ primary' = IF dom.reviewsTab
                        THEN [primary EXCEPT !.tab = "reviews"] ELSE primary
          /\ UNCHANGED thrown
       \/ /\ CanFail
          /\ thrown' = Append(thrown, [at |-> pc, idx |-> idx])
          /\ ReviewsCatch(data)
          /\ UNCHANGED primary
    /\ UNCHANGED <<variant, res, prev, outcome, browser, idx, dom, data, rv,
                   resolverVars, emailVars, outVars>>

\* page.waitForSelector('div[data-review-id]', 5 s), then the container locator:
\* with no review element the wait times out into the reviews catch
WaitReview ==
    /\ pc = "waitReview"
    /\ \/ /\ dom.loaded > 0
          /\ rv' = [rv EXCEPT !.visible = dom.loaded]
          /\ pc' = IF dom.container THEN "reviewScroll" ELSE "expand"
          /\ UNCHANGED thrown
       \/ /\ dom.loaded = 0
          /\ ReviewsCatch(data)
          /\ UNCHANGED <<rv, thrown>>
       \/ /\ CanFail
          /\ thrown' = Append(thrown, [at |-> pc, idx |-> idx])
          /\ ReviewsCatch(data)
          /\ UNCHANGED rv
    /\ UNCHANGED <<variant, res, prev, outcome, browser, idx, dom, data, primary,
                   resolverVars, emailVars, outVars>>

\* for (let i = 0; i < 3; i++) { scrollTo(0, scrollHeight); waitForTimeout(1000) }
ReviewScroll ==
    /\ pc = "reviewScroll"
    /\ \/ /\ rv' = [rv EXCEPT !.i = rv.i + 1,
                              !.visible = Min(rv.visible + dom.perScroll,
                                              Len(dom.reviewEls))]
          /\ primary' = [primary EXCEPT !.scroll = primary.scroll + 1]
          /\ pc' = IF rv.i + 1 < ReviewScrolls THEN "reviewScroll" ELSE "expand"
          /\ UNCHANGED thrown
       \/ /\ CanFail
          /\ thrown' = Append(thrown, [at |-> pc, idx |-> idx])
          /\ ReviewsCatch(data)
          /\ UNCHANGED <<rv, primary>>
    /\ UNCHANGED <<variant, res, prev, outcome, browser, idx, dom, data,
                   resolverVars, emailVars, outVars>>

\* a harvester that leaves the reviews block when a click fails
ExpandAborts ==
    /\ pc = "expand"
    /\ LET more == MoreButtons(dom, rv.visible)
       IN  \/ /\ rv.clicks < Min(Len(more), ExpandCap)
              /\ rv' = [rv EXCEPT !.clicks = rv.clicks + 1,
                                  !.expanded = rv.expanded \cup {more[rv.clicks + 1]}]
              /\ UNCHANGED <<pc, thrown>>
           \/ /\ rv.clicks < Min(Len(more), ExpandCap)
              /\ CanFail
              /\ thrown' = Append(thrown, [at |-> pc, idx |-> idx])
              /\ ReviewsCatch(data)
              /\ UNCHANGED rv
           \/ /\ rv.clicks >= Min(Len(more), ExpandCap)
              /\ pc' = "extract"
              /\ UNCHANGED <<rv, thrown>>
    /\ UNCHANGED <<variant, res, prev, outcome, browser, idx, dom, data, primary,
                   resolverVars, emailVars, outVars>>

\* a harvester that goes on to read the reviews without clicking any button
ExpandSkips ==
    /\ pc = "expand"
    /\ pc' = "extract"
    /\ UNCHANGED <<rv, thrown>>
    /\ UNCHANGED <<variant, res, prev, outcome, browser, idx, dom, data, primary,
                   resolverVars, emailVars, outVars>>

\* for (const btn of moreButtons.slice(0, 10)) try { click; wait } catch (e) { };
\* then reviewElements = page.$$('div[data-review-id]')
Expand ==
    /\ pc = "expand"
    /\ LET more == MoreButtons(dom, rv.visible)
       IN  \/ /\ rv.clicks < Min(Len(more), ExpandCap)
              /\ rv' = [rv EXCEPT !.clicks = rv.clicks + 1,
                                  !.expanded = rv.expanded \cup {more[rv.clicks + 1]}]
              /\ UNCHANGED <<pc, thrown>>
           \/ /\ rv.clicks < Min(Len(more), ExpandCap)
              /\ CanFail
              /\ thrown' = Append(thrown, [at |-> pc, idx |-> idx])
              /\ rv' = [rv EXCEPT !.clicks = rv.clicks + 1]
              /\ UNCHANGED pc
           \/ /\ rv.clicks >= Min(Len(more), ExpandCap)
              /\ pc' = "extract"
              /\ UNCHANGED <<rv, thrown>>
    /\ UNCHANGED <<variant, res, prev, outcome, browser, idx, dom, data, primary,
                   resolverVars, emailVars, outVars>>

\* data.reviews after the review read from one element
PushReview(reviews, review) ==
    IF Retained(review) THEN Append(reviews, review) ELSE reviews

\* one iteration of for (const reviewEl of reviewElements): read the element (a
\* throw inside is caught per review, with what was read so far), push the
\* review if it has data, leave the loop at the cap
Extract ==
    /\ pc = "extract"
    /\ rv.read < rv.visible
    /\ LET k == rv.read + 1
       IN  \/ /\ data' = [data EXCEPT !.reviews =
                            PushReview(@, ReadReview(dom.reviewEls[k],
                                                     k \in rv.expanded, 4))]
              /\ UNCHANGED thrown
           \/ /\ CanFail
              /\ thrown' = Append(thrown, [at |-> pc, idx |-> idx])
              /\ \E upTo \in 0..3 :
                    data' = [data EXCEPT !.reviews =
                               PushReview(@, ReadReview(dom.reviewEls[k],
                                                        k \in rv.expanded, upTo))]
    /\ rv' = [rv EXCEPT !.read = rv.read + 1]
    /\ pc' = IF ReviewsFull(data'.reviews) \/ rv.read + 1 >= rv.visible
             THEN "chips" ELSE "extract"
    /\ UNCHANGED <<variant, res, prev, outcome, browser, idx, dom, primary,
                   resolverVars, emailVars, outVars>>

\* data.reviewCategories = []; waitForTimeout(1000); the loop over button.e2moi.
\* A throw leaves the entries pushed so far and goes to the reviews catch.
Chips ==
    /\ pc = "chips"
    /\ \/ /\ data' = [data EXCEPT !.reviewCategories = ScanChips(dom.chips)]
          /\ pc' = "names"
          /\ UNCHANGED thrown
       \/ /\ CanFail
          /\ thrown' = Append(thrown, [at |-> pc, idx |-> idx])
          /\ \E n \in 0..Len(dom.chips) :
                /\ n = 0 \/ n < Len(dom.chips)
                /\ data' = [data EXCEPT !.reviewCategories =
                              ScanChips(SubSeq(dom.chips, 1, n))]
          /\ ReviewsCatch(data')
    /\ UNCHANGED <<variant, res, prev, outcome, browser, idx, dom, rv, primary,
                   resolverVars, emailVars, outVars>>

\* data.mentionedNames = []; the loops over data.reviews and the matches
Names ==
    /\ pc = "names"
    /\ data' = [data EXCEPT !.mentionedNames = MentionedNames(data.reviews)]
    /\ pc' = EmailOrPush(data')
    /\ UNCHANGED <<idx, dom, rv, primary, runVars, resolverVars, emailVars, outVars>>

-----------------------------------------------------------------------------
(* Email Harvester *)

\* the catch of the email step.  runScraper logs and goes on to the push.
\* scraper.js then evaluates page2.isClosed(), but page2 is a const of the try
\* block and is not in scope in the catch: a ReferenceError, which the
\* listing-level catch takes.  Neither closes the secondary page.
EmailCatch ==
    /\ thrown' = Append(thrown, [at |-> pc, idx |-> idx])
    /\ IF variant = "cli"
       THEN ListingCatch
       ELSE /\ pc' = "push"
            /\ UNCHANGED <<idx, outVars>>

\* const page2 = await context.newPage()
EmailOpen ==
    /\ pc = "emailOpen"
    /\ \/ /\ page2' = "open"
          /\ openPages' = openPages + 1
          /\ pc' = "emailGoto"
          /\ UNCHANGED <<idx, thrown, outVars>>
       \/ /\ CanFail
          /\ EmailCatch
          /\ UNCHANGED <<page2, openPages>>
    /\ UNCHANGED <<variant, res, prev, outcome, browser, dom, data, rv, primary, resolverVars>>

\* an email step that loads the website in the primary page
EmailGotoPrimary ==
    /\ pc = "emailGoto"
    /\ pc' = "emailContent"
    /\ primary' = [loc |-> 0, tab |-> "overview", scroll |-> 0]
    /\ UNCHANGED <<idx, thrown, outVars>>
    /\ UNCHANGED <<variant, res, prev, outcome, browser, dom, data, rv,
                   resolverVars, emailVars>>

\* await page2.goto(data.website, { timeout: 15000 })
EmailGoto ==
    /\ pc = "emailGoto"
    /\ \/ /\ pc' = "emailContent"
          /\ UNCHANGED <<idx, thrown, outVars>>
       \/ /\ CanFail
          /\ EmailCatch
    /\ UNCHANGED <<variant, res, prev, outcome, browser, dom, data, rv, primary,
                   resolverVars, emailVars>>

\* content = await page2.content(); the match, the filter and data.email
EmailContent ==
    /\ pc = "emailContent"
    /\ \/ /\ data' = [data EXCEPT !.email = EmailOf(dom.site, data.email)]
          /\ pc' = "emailClose"
          /\ UNCHANGED <<idx, thrown, outVars>>
       \/ /\ CanFail
          /\ EmailCatch
          /\ UNCHANGED data
    /\ UNCHANGED <<variant, res, prev, outcome, browser, dom, rv, primary,
                   resolverVars, emailVars>>

\* await page2.close(), the last statement of the try block
EmailClose ==
    /\ pc = "emailClose"
    /\ page2' = "closed"
    /\ openPages' = openPages - 1
    /\ pc' = "push"
    /\ UNCHANGED <<runVars, resolverVars, passVars, outVars>>

\* a push into a fresh accumulator: the records appended before are lost
PushReplaces ==
    /\ pc = "push"
    /\ resultsData' = <<data>>
    /\ EndPass
    /\ UNCHANGED <<dom, data, rv, primary, dropped, csvFile, jsonFile,
                   runVars, resolverVars, emailVars>>

\* a push that puts the record in front of the accumulator (unshift)
PushFront ==
    /\ pc = "push"
    /\ resultsData' = <<data>> \o resultsData
    /\ EndPass
    /\ UNCHANGED <<dom, data, rv, primary, dropped, csvFile, jsonFile,
                   runVars, resolverVars, emailVars>>

\* resultsData.push(data)
Push ==
    /\ pc = "push"
    /\ resultsData' = Append(resultsData, data)
    /\ EndPass
    /\ UNCHANGED <<dom, data, rv, primary, dropped, csvFile, jsonFile,
                   runVars, resolverVars, emailVars>>

-----------------------------------------------------------------------------
(* Export *)

\* the columns of results.csv, in header order
CsvColumns == <<"name", "address", "phone", "website", "rating", "reviewCount",
                "reviewCategories", "mentionedNames", "email", "url">>

\* csvWriter.writeRecords: one row per record, the header's fields in its order
CsvOf(records) ==
    [i \in 1..Len(records) |-> [c \in 1..Len(CsvColumns) |-> records[i][CsvColumns[c]]]]

\* the keys that the code may leave undefined
OptionalKeys == {"attributes", "reviewer", "rating", "text", "time"}

\* JSON.stringify leaves out the keys whose value is undefined
JsonObject(r) ==
    [k \in {key \in DOMAIN r :
               \/ key \notin OptionalKeys
               \/ r[key] # (IF key = "attributes" THEN NoList ELSE Undefined)} |-> r[k]]

JsonRecord(r) ==
    JsonObject([r EXCEPT !.reviews = [i \in 1..Len(r.reviews) |-> JsonObject(r.reviews[i])]])

JsonOf(records) == [i \in 1..Len(records) |-> JsonRecord(records[i])]

\* await csvWriter.writeRecords(resultsData)
ExportCsv ==
    /\ pc = "exportCsv"
    /\ \/ /\ csvFile' = Written(CsvOf(resultsData))
          /\ pc' = "exportJson"
          /\ UNCHANGED <<outcome, browser, thrown>>
       \/ /\ CanFail
          /\ FatalCatch
          /\ UNCHANGED csvFile
    /\ UNCHANGED <<variant, res, prev, resultsData, dropped, jsonFile,
                   resolverVars, passVars, emailVars>>

\* fs.writeFileSync('results.json', JSON.stringify(resultsData, null, 2))
ExportJson ==
    /\ pc = "exportJson"
    /\ \/ /\ jsonFile' = Written(JsonOf(resultsData))
          /\ pc' = "close"
          /\ UNCHANGED <<outcome, browser, thrown>>
       \/ /\ CanFail
          /\ FatalCatch
          /\ UNCHANGED jsonFile
    /\ UNCHANGED <<variant, res, prev, resultsData, dropped, csvFile,
                   resolverVars, passVars, emailVars>>

\* console.log('Done!'); await browser.close() (runScraper then returns resultsData)
Close ==
    /\ pc = "close"
    /\ browser' = "closed"
    /\ outcome' = "ok"
    /\ pc' = "done"
    /\ UNCHANGED <<variant, res, prev, thrown, resolverVars, passVars, emailVars, outVars>>

\* the handler after await runScraper(query): res.writeHead(200) and res.end of
\* {success: true, count: results.length, message}; or, in its catch,
\* res.writeHead(500) and res.end of {success: false, error: error.message}.  The
\* error is named by the operation that threw it.
Respond ==
    /\ variant = "server"
    /\ pc = "done"
    /\ res.ended = 0
    /\ res' = IF outcome = "ok"
              THEN [ended |-> 1, status |-> 200, success |-> TRUE,
                    count |-> Len(resultsData), error |-> ""]
              ELSE [ended |-> 1, status |-> 500, success |-> FALSE,
                    count |-> -1, error |-> thrown[Len(thrown)].at]
    /\ UNCHANGED <<pc, variant, prev, outcome, browser, thrown, resolverVars, passVars,
                   emailVars, outVars>>

-----------------------------------------------------------------------------
(* The run *)

\* the state after construction; the query's feed is kept aside when the other
\* pipeline is to run on it afterwards
InitRun(feeds, both) ==
    /\ variant \in {"cli", "server"}
    /\ res = NoResponse
    /\ pc = IF variant = "server" THEN "request" ELSE "launch"
    /\ outcome = "running"
    /\ browser = "none"
    /\ thrown = <<>>
    /\ feed \in feeds
    /\ prev = NoRun(IF both THEN feed ELSE <<>>)
    /\ rendered = 0
    /\ nResults = 0
    /\ scrolls = 0
    /\ urls = <<>>
    /\ idx = 0
    /\ dom = BlankPage
    /\ data = NewRecord(0)
    /\ rv = NoReviewState
    /\ primary = [loc |-> -1, tab |-> "overview", scroll |-> 0]
    /\ page2 = "none"
    /\ openPages = 0
    /\ resultsData = <<>>
    /\ dropped = {}
    /\ csvFile = NotWritten
    /\ jsonFile = NotWritten

InitWith(feeds) == InitRun(feeds, FALSE)

Init == InitWith(RunFeeds)

Session == Parse \/ Launch \/ NewContext \/ SessionStep \/ Consent \/ WaitFeed

Resolver == ScrollQuery \/ ScrollStep \/ Collect

Fields == Goto \/ Name \/ Buttons \/ Rating \/ Attrs

Reviews == ReviewsTab \/ WaitReview \/ ReviewScroll \/ Expand \/ Extract \/ Chips \/ Names

Email == EmailOpen \/ EmailGoto \/ EmailContent \/ EmailClose

Export == Push \/ ExportCsv \/ ExportJson \/ Close \/ Respond

Next == Session \/ Resolver \/ Fields \/ Reviews \/ Email \/ Export

Spec == Init /\ [][Next]_vars

\* every await of the scroll loop and of the collection returns (the queries,
\* the scroll and the fixed 2 s wait cannot block): the flow takes its next step
FairSpec == Spec /\ WF_vars(Resolver)

-----------------------------------------------------------------------------
\* a whole run in which the flow never waits forever at a position from which
\* it can go on: every await settles.  The steps that scan a text (the chips,
\* the names, the website's content) can be taken whenever the flow is at them,
\* so their fairness is that the flow does not stay there.
Settles ==
    \/ Session \/ Resolver \/ Fields
    \/ ReviewsTab \/ WaitReview \/ ReviewScroll \/ Expand \/ Extract
    \/ EmailOpen \/ EmailGoto \/ EmailClose
    \/ Export

ScanPcs == {"chips", "names", "emailContent"}

FairRun == Spec /\ WF_vars(Settles) /\ []<>(pc \notin ScanPcs)

-----------------------------------------------------------------------------
(* Both pipelines on one query: when a run has ended, the other pipeline is *)
(* run on the same feed                                                     *)

Other(v) == IF v = "cli" THEN "server" ELSE "cli"

\* the first run is recorded and the other pipeline starts, as in Init
Rerun ==
    /\ pc = "done"
    /\ prev.variant = "none"
    /\ outcome \in {"ok", "fatal", "crashed"}
    /\ prev' = [prev EXCEPT !.variant = variant, !.thrown = thrown, !.urls = urls,
                            !.resultsData = resultsData]
    /\ variant' = Other(variant)
    /\ res' = NoResponse
    /\ pc' = IF variant' = "server" THEN "request" ELSE "launch"
    /\ outcome' = "running"
    /\ browser' = "none"
    /\ thrown' = <<>>
    /\ feed' = prev.feed
    /\ rendered' = 0
    /\ nResults' = 0
    /\ scrolls' = 0
    /\ urls' = <<>>
    /\ idx' = 0
    /\ dom' = BlankPage
    /\ data' = NewRecord(0)
    /\ rv' = NoReviewState
    /\ primary' = [loc |-> -1, tab |-> "overview", scroll |-> 0]
    /\ page2' = "none"
    /\ openPages' = 0
    /\ resultsData' = <<>>
    /\ dropped' = {}
    /\ csvFile' = NotWritten
    /\ jsonFile' = NotWritten

NextBoth == Next \/ Rerun

InitBoth == InitRun(RunFeeds, TRUE)

SpecBoth == InitBoth /\ [][NextBoth]_vars

-----------------------------------------------------------------------------
(* Two scrape requests that overlap: the handler of each runs runScraper with *)
(* its own locals; the steps of the two interleave at their awaits, and both *)
(* write results.csv and results.json of the working directory              *)

\* the feeds of the two requests: one article each
OverlapFeeds == [1..1 -> 1..UrlMax]

\* the locals of a request's handler and of its runScraper call, at its start
NewRun(f) ==
    [res |-> NoResponse, pc |-> "request", outcome |-> "running", browser |-> "none",
     thrown |-> <<>>, feed |-> f, rendered |-> 0, nResults |-> 0, scrolls |-> 0,
     urls |-> <<>>, idx |-> 0, dom |-> BlankPage, data |-> NewRecord(0),
     rv |-> NoReviewState,
     primary |-> [loc |-> -1, tab |-> "overview", scroll |-> 0],
     page2 |-> "none", openPages |-> 0, resultsData |-> <<>>, dropped |-> {}]

\* the locals of the run whose step is being taken
ThisRun ==
    [res |-> res, pc |-> pc, outcome |-> outcome, browser |-> browser,
     thrown |-> thrown, feed |-> feed, rendered |-> rendered, nResults |-> nResults,
     scrolls |-> scrolls, urls |-> urls, idx |-> idx, dom |-> dom, data |-> data,
     rv |-> rv, primary |-> primary, page2 |-> page2, openPages |-> openPages,
     resultsData |-> resultsData, dropped |-> dropped]

\* the run that awaits is set aside with its locals, and the other run, whose
\* await has settled, goes on with its own; the two files are the same for both
Switch ==
    /\ prev.variant = "waiting"
    /\ prev' = [variant |-> "waiting", id |-> 3 - prev.id, run |-> ThisRun]
    /\ res' = prev.run.res
    /\ pc' = prev.run.pc
    /\ outcome' = prev.run.outcome
    /\ browser' = prev.run.browser
    /\ thrown' = prev.run.thrown
    /\ feed' = prev.run.feed
    /\ rendered' = prev.run.rendered
    /\ nResults' = prev.run.nResults
    /\ scrolls' = prev.run.scrolls
    /\ urls' = prev.run.urls
    /\ idx' = prev.run.idx
    /\ dom' = prev.run.dom
    /\ data' = prev.run.data
    /\ rv' = prev.run.rv
    /\ primary' = prev.run.primary
    /\ page2' = prev.run.page2
    /\ openPages' = prev.run.openPages
    /\ resultsData' = prev.run.resultsData
    /\ dropped' = prev.run.dropped
    /\ UNCHANGED <<variant, csvFile, jsonFile>>

\* both requests have arrived; the first one's handler is about to parse
InitOverlap ==
    /\ variant = "server"
    /\ \E f \in OverlapFeeds :
          /\ res = NewRun(f).res
          /\ pc = NewRun(f).pc
          /\ outcome = NewRun(f).outcome
          /\ browser = NewRun(f).browser
          /\ thrown = NewRun(f).thrown
          /\ feed = NewRun(f).feed
          /\ rendered = NewRun(f).rendered
          /\ nResults = NewRun(f).nResults
          /\ scrolls = NewRun(f).scrolls
          /\ urls = NewRun(f).urls
          /\ idx = NewRun(f).idx
          /\ dom = NewRun(f).dom
          /\ data = NewRun(f).data
          /\ rv = NewRun(f).rv
          /\ primary = NewRun(f).primary
          /\ page2 = NewRun(f).page2
          /\ openPages = NewRun(f).openPages
          /\ resultsData = NewRun(f).resultsData
          /\ dropped = NewRun(f).dropped
    /\ \E g \in OverlapFeeds : prev = [variant |-> "waiting", id |-> 2, run |-> NewRun(g)]
    /\ csvFile = NotWritten
    /\ jsonFile = NotWritten

\* the steps of runScraper (which has no attribute stage) and of its handler
NextOverlap ==
    \/ Session \/ Resolver
    \/ Goto \/ Name \/ Buttons \/ Rating
    \/ Reviews \/ Email \/ Export
    \/ Switch

SpecOverlap == InitOverlap /\ [][NextOverlap]_vars

-----------------------------------------------------------------------------
(* A run up to its first listing pass, and the export that follows a *)
(* collection without URLs                                          *)

NextSearch == Session \/ Resolver \/ ExportCsv \/ ExportJson \/ Close \/ Respond

\* every await of the session, of the scroll loop, of the export and of the
\* response settles
FairSearch == Init /\ [][NextSearch]_vars /\ WF_vars(NextSearch)

-----------------------------------------------------------------------------
(* The Listing Resolver alone, on feeds long enough to reach MAX_RESULTS *)

InitResolver == InitWith(ResolverFeeds)

NextResolver == Session \/ Resolver

SpecResolver == InitResolver /\ [][NextResolver]_vars

-----------------------------------------------------------------------------
(* The Review Harvester on its own: one listing's pass from the reviews tab on *)

\* a page with n review elements: the even positions up to 2 * blanks hold a time
\* only, the others a review (with or without a See more button)
CapPage(n, blanks, loaded, perScroll, container) ==
    [PageA EXCEPT
     !.reviewEls = [k \in 1..n |->
                      IF k % 2 = 0 /\ k <= 2 * blanks THEN PageA.reviewEls[2]
                      ELSE IF k % 2 = 1 THEN PageA.reviewEls[1]
                      ELSE PageA.reviewEls[3]],
     !.loaded = loaded, !.perScroll = perScroll, !.container = container]

CapPages ==
    {CapPage(n, b, l, p, c) :
        n \in 0..RevMax, b \in 0..MaxBlank, l \in {0, 1, RevMax}, p \in {0, 4},
        c \in BOOLEAN}

\* a page of n reviews that all have a See more button, all loaded at once
MorePage(n, container) ==
    [PageA EXCEPT
     !.reviewEls = [k \in 1..n |-> PageA.reviewEls[1]],
     !.loaded = n, !.perScroll = 0, !.container = container]

MorePages == {MorePage(RevMax, c) : c \in BOOLEAN}

\* pieces of review text: names, an excluded phrase, a name broken over two
\* lines (line feed, carriage return), words the pattern does not match
Fragments ==
    {<<"J","o","h","n"," ","D","o","e">>, <<"A","n","n"," ","L","e","e">>, <<"S","a","n"," ","F","r","a","n","c","i","s","c","o">>, <<"A","n","n","\n","L","e","e">>, <<"A","n","n","\r","L","e","e">>,
     <<"J","o"," ","D","o","e">>, <<"x","A","n","n"," ","L","e","e">>}

\* the review texts of a page: n fragments in all, each starting a new review or
\* continuing the last one after a space
RECURSIVE TextsOf(_)
TextsOf(n) ==
    IF n = 0 THEN {<<>>}
    ELSE UNION {{Append(t, f) : f \in Fragments} \cup
                {[t EXCEPT ![Len(t)] = @ \o <<" ">> \o f] :
                    f \in IF t = <<>> THEN {} ELSE Fragments}
                : t \in TextsOf(n - 1)}

\* a page whose reviews have the given texts, all loaded at once
NamePage(texts) ==
    [PageB EXCEPT
     !.reviewsTab = TRUE, !.loaded = Len(texts),
     !.reviewEls = [k \in 1..Len(texts) |->
                      ReviewEl(Null, Undefined, Undefined, texts[k], texts[k], Undefined)]]

NamePages == {NamePage(t) : t \in UNION {TextsOf(n) : n \in 0..FragMax}}

\* the pass of the only URL is at the reviews block: the page is loaded, the
\* record is initialised
InitReviews ==
    /\ variant \in {"cli", "server"}
    /\ res = NoResponse
    /\ pc = "reviewsTab"
    /\ outcome = "running"
    /\ browser = "open"
    /\ thrown = <<>>
    /\ feed = <<>>
    /\ prev = NoRun(feed)
    /\ rendered = 0
    /\ nResults = 0
    /\ scrolls = 0
    /\ urls = <<1>>
    /\ idx = 1
    /\ dom \in {d \in CapPages \cup NamePages \cup MorePages : d.loaded <= Len(d.reviewEls)}
    /\ data = NewRecord(1)
    /\ rv = NoReviewState
    /\ primary = [loc |-> 1, tab |-> "overview", scroll |-> 0]
    /\ page2 = "none"
    /\ openPages = 0
    /\ resultsData = <<>>
    /\ dropped = {}
    /\ csvFile = NotWritten
    /\ jsonFile = NotWritten

NextReviews == Reviews \/ Push

SpecReviews == InitReviews /\ [][NextReviews]_vars

-----------------------------------------------------------------------------
(* The Email Harvester on its own: one listing's pass from `if (data.website)` on *)

\* tokens of a website's content: addresses (two that differ in case only), an
\* image name, a tooling address, a placeholder address, and two tokens the
\* pattern does not match
SiteTokens ==
    {<<"a","@","b",".","c","o">>, <<"A","@","b",".","c","o">>, <<"i","@","2","x",".","P","N","G">>, <<"x","@","s","e","n","t","r","y",".","i","o">>, <<"c","o","n","t","a","c","t","@","e","x","a","m","p","l","e",".","c","o","m">>,
     <<"i","n","f","o","@","r","e","a","l","b","i","z",".","c","o","m">>, <<"r","e","a","l","b","i","z",".","c","o","m">>, <<"a","@","b">>}

\* the contents made of n tokens separated by spaces
RECURSIVE SitesOf(_)
SitesOf(n) ==
    IF n = 0 THEN {<<>>}
    ELSE {IF s = <<>> THEN t ELSE s \o <<" ">> \o t : s \in SitesOf(n - 1), t \in SiteTokens}

SiteContents == UNION {SitesOf(n) : n \in 0..SiteMax}

\* the pass of the only URL has left the reviews block with no review and is at
\* the name scan, the last step before `if (data.website)`: the record has a
\* website, an empty one or none (null)
InitEmail ==
    /\ variant \in {"cli", "server"}
    /\ res = NoResponse
    /\ pc = "names"
    /\ outcome = "running"
    /\ browser = "open"
    /\ thrown = <<>>
    /\ feed = <<>>
    /\ prev = NoRun(feed)
    /\ rendered = 0
    /\ nResults = 0
    /\ scrolls = 0
    /\ urls = <<1>>
    /\ idx = 1
    /\ dom \in {[PageA EXCEPT !.site = c] : c \in SiteContents}
    /\ data \in {[NewRecord(1) EXCEPT !.website = w] : w \in {PageA.websiteHref, <<>>, Null}}
    /\ rv = NoReviewState
    /\ primary = [loc |-> 1, tab |-> "reviews", scroll |-> 0]
    /\ page2 = "none"
    /\ openPages = 0
    /\ resultsData = <<>>
    /\ dropped = {}
    /\ csvFile = NotWritten
    /\ jsonFile = NotWritten

NextEmail == Names \/ Email \/ Push

SpecEmail == InitEmail /\ [][NextEmail]_vars

-----------------------------------------------------------------------------
(* The Field Resolver on its own: one listing's pass from the tagged buttons on *)

\* tagged buttons: two address candidates and two phone candidates (with and
\* without a label attribute), a website label, and a button with another tag
TaggedButtons ==
    {[itemId |-> <<"a","d","d","r","e","s","s">>, aria |-> <<"A","d","d","r","e","s","s",":"," ","1"," ","M","a","i","n">>, text |-> <<"1"," ","M","a","i","n">>],
     [itemId |-> <<"a","d","d","r","e","s","s","-","a","l","t">>, aria |-> Null, text |-> <<"2"," ","S","i","d","e">>],
     [itemId |-> <<"p","h","o","n","e",":","t","e","l",":","5","5","5">>, aria |-> Null, text |-> <<"5","5","5">>],
     [itemId |-> <<"p","h","o","n","e",":","t","e","l",":","5","5","6">>, aria |-> <<"P","h","o","n","e",":"," ","5","5","6">>, text |-> <<"5","5","6">>],
     [itemId |-> <<"a","u","t","h","o","r","i","t","y">>, aria |-> <<"W","e","b","s","i","t","e">>, text |-> <<"c",".","o","r","g">>],
     [itemId |-> <<"o","l","o","c">>, aria |-> <<"P","l","u","s"," ","c","o","d","e">>, text |-> <<"8","Q","7","X">>]}

\* the sequences of n tagged buttons
RECURSIVE ButtonsOf(_)
ButtonsOf(n) ==
    IF n = 0 THEN {<<>>}
    ELSE {Append(s, b) : s \in ButtonsOf(n - 1), b \in TaggedButtons}

\* pages with up to BtnMax tagged buttons and a website link that is absent, has
\* no target or has one
FieldPages ==
    {[BlankPage EXCEPT !.buttons = s, !.websiteHref = h] :
        s \in UNION {ButtonsOf(n) : n \in 0..BtnMax},
        h \in {Undefined, Null, <<"h","t","t","p",":","/","/","c",".","o","r","g","/">>}}

\* the pass of the only URL is at the buttons loop: the page is loaded, the
\* record is initialised
InitFields ==
    /\ variant \in {"cli", "server"}
    /\ res = NoResponse
    /\ pc = "buttons"
    /\ outcome = "running"
    /\ browser = "open"
    /\ thrown = <<>>
    /\ feed = <<>>
    /\ prev = NoRun(feed)
    /\ rendered = 0
    /\ nResults = 0
    /\ scrolls = 0
    /\ urls = <<1>>
    /\ idx = 1
    /\ dom \in FieldPages
    /\ data = NewRecord(1)
    /\ rv = NoReviewState
    /\ primary = [loc |-> 1, tab |-> "overview", scroll |-> 0]
    /\ page2 = "none"
    /\ openPages = 0
    /\ resultsData = <<>>
    /\ dropped = {}
    /\ csvFile = NotWritten
    /\ jsonFile = NotWritten

NextFields == Buttons \/ Rating

SpecFields == InitFields /\ [][NextFields]_vars

-----------------------------------------------------------------------------
(* Claims *)

InScrollLoop == pc \in {"scrollQuery", "scrollStep"}

\* the feed has rendered all it has: K articles, 1 <= K < MAX_RESULTS, and no
\* scroll makes it grow
StalledFeed ==
    /\ InScrollLoop
    /\ rendered = Len(feed)
    /\ 1 <= Len(feed)
    /\ Len(feed) < MAX_RESULTS

\* C1: stall termination.  Once the feed has stalled at K articles, 1 <= K <
\* MAX_RESULTS, the scroll loop ends and the URLs of the K articles are collected.
C1_StallTermination == StalledFeed ~> (pc \notin {"scrollQuery", "scrollStep", "collect"})

\* the positions of the email step at which the secondary page exists
EmailPcs == {"emailOpen", "emailGoto", "emailContent", "emailClose"}

\* C2: every secondary page opened by the email step is closed when the step
\* ends, on every exit path: outside the step (the push, the next listing, the
\* export, the end of the run) no secondary page is open.
C2_SecondaryClosed == pc \notin EmailPcs => openPages = 0

\* opening the secondary page, navigating to the website, reading its content
EmailFailPcs == {"emailOpen", "emailGoto", "emailContent"}

\* the record of urls[i] in the accumulator, if it has one
RecordsOf(i) == {r \in 1..Len(resultsData) : resultsData[r].url = urls[i]}

\* the pass of urls[i] is over
PassOver(i) == idx > i

\* C3: a failure inside the email step (opening the secondary page, navigating,
\* reading the content) never fails the listing: once the pass is over the
\* accumulator holds the listing's record, with email the empty string.
C3_EmailFailureKeepsListing ==
    \A k \in 1..Len(thrown) :
        (thrown[k].at \in EmailFailPcs /\ PassOver(thrown[k].idx)) =>
            \E r \in RecordsOf(thrown[k].idx) : resultsData[r].email = <<>>

\* ^.+ \(\d+\)$: a subject, a space, and a digit string in parentheses
IsCategoryForm(e) ==
    \E i \in 1..Len(e) :
        /\ \A k \in 1..i : e[k] \notin LineTerminator
        /\ Len(e) >= i + 4
        /\ SubSeq(e, i + 1, i + 2) = <<" ", "(">>
        /\ e[Len(e)] = ")"
        /\ \A k \in (i + 3)..(Len(e) - 1) : e[k] \in Digit

\* the records of the run: the one under construction and the appended ones
AllRecords == {data} \cup Range(resultsData)

\* C4: every entry of reviewCategories of every record has the form
\* "<subject> (<N>)", N a digit string; a chip label that does not match the
\* whole "mentioned in <N> review(s)" pattern never reaches reviewCategories.
C4_CategoryForm ==
    \A r \in AllRecords :
        \A i \in 1..Len(r.reviewCategories) : IsCategoryForm(r.reviewCategories[i])

\* the positions of the session setup inside the outer try
SessionPcs == {"gotoRoot", "fill", "press", "waitFeed"}

\* the positions of a listing's pass
PassPcs == {"goto", "name", "buttons", "website", "rating", "count", "attrs",
            "reviewsTab", "waitReview", "reviewScroll", "expand", "extract",
            "chips", "names", "push"} \cup EmailPcs

\* C8: per-listing failure isolation.  A listing whose pass ended in the
\* listing-level catch has no record; an exception thrown inside a pass never
\* ends the run in the fatal catch; and a run in which nothing was thrown outside
\* the passes ends normally, with every URL either recorded or dropped and both
\* exports written.
C8_ListingIsolation ==
    /\ \A i \in dropped : RecordsOf(i) = {}
    /\ outcome = "fatal" => thrown[Len(thrown)].at \notin PassPcs
    /\ (pc = "done" /\ \A k \in 1..Len(thrown) : thrown[k].at \in PassPcs) =>
          /\ outcome = "ok"
          /\ \A i \in 1..Len(urls) : i \in dropped \/ RecordsOf(i) # {}
          /\ csvFile.written /\ jsonFile.written

\* a pass ended in the listing-level catch, the URLs after it were recorded and
\* the run ended normally
C8_Witness ==
    /\ pc = "done"
    /\ outcome = "ok"
    /\ jsonFile.written
    /\ \E i \in dropped : \E j \in (i + 1)..Len(urls) : RecordsOf(j) # {}

\* C9: a failure of the session setup (loading the directory root, submitting
\* the query, the wait for the results container) ends the run in failure: no
\* listing is processed and neither export is written.
C9_FatalSession ==
    (\E k \in 1..Len(thrown) : thrown[k].at \in SessionPcs) =>
        /\ pc = "done"
        /\ outcome = "fatal"
        /\ urls = <<>> /\ idx = 0
        /\ resultsData = <<>> /\ dropped = {}
        /\ ~csvFile.written /\ ~jsonFile.written

\* the wait for the results container timed out
C9_Witness ==
    /\ pc = "done"
    /\ \E k \in 1..Len(thrown) : thrown[k].at = "waitFeed"

\* C10: the exports are atomic as a pair: when the run has ended, both files
\* were written, from the same accumulator, or neither was.
C10_ExportPair ==
    pc = "done" =>
        \/ ~csvFile.written /\ ~jsonFile.written
        \/ /\ csvFile.written /\ jsonFile.written
           /\ csvFile.rows = CsvOf(resultsData)
           /\ jsonFile.rows = JsonOf(resultsData)

\* the rendered part of the feed, which the collection reads
RenderedFeed == SubSeq(feed, 1, rendered)

\* the positions of f at which a link target appears for the first time
FirstSeenAt(f) ==
    {i \in 1..Len(f) : f[i] # NullHref /\ \A j \in 1..(i - 1) : f[j] # f[i]}

\* the collection has run and no listing page has been loaded since
JustCollected == idx = 1 /\ pc \in {"goto", "exportCsv"}

\* C7: urls never holds the same URL twice and never more than MAX_RESULTS
\* entries; after the collection it lists, in the order of their first appearance
\* in the feed, the first MAX_RESULTS distinct link targets (all of them when
\* there are fewer), whatever the feed repeats or leaves without a target.
C7_UrlsDedupOrdered ==
    /\ \A i, j \in 1..Len(urls) : urls[i] = urls[j] => i = j
    /\ Len(urls) <= MAX_RESULTS
    /\ JustCollected =>
          LET P == FirstSeenAt(RenderedFeed)
          IN  /\ Len(urls) = Min(Cardinality(P), MAX_RESULTS)
              /\ \A k \in 1..Len(urls) :
                    \E i \in P : /\ RenderedFeed[i] = urls[k]
                                 /\ Cardinality({j \in P : j < i}) = k - 1

\* a feed that repeats a link target, collected up to the cap
C7_Witness ==
    /\ JustCollected
    /\ Len(urls) = MAX_RESULTS
    /\ \E i, j \in 1..rendered : i < j /\ feed[i] = feed[j] /\ feed[i] # NullHref

\* C5: in every state of a listing's extraction and in every appended record,
\* reviews holds at most 10 review records, however many review elements the
\* page has.
C5_ReviewCap == \A r \in AllRecords : Len(r.reviews) <= ReviewCap

\* the extraction loop was left at the cap with review elements still unread
C5_Witness ==
    /\ pc = "chips"
    /\ Len(data.reviews) = ReviewCap
    /\ rv.read < rv.visible

\* the trimmed pattern matches of the texts of reviews, in reading order
RECURSIVE SeenNames(_)
SeenNames(reviews) ==
    IF reviews = <<>> THEN <<>>
    ELSE (IF Truthy(reviews[1].text)
          THEN LET m == NameMatches(reviews[1].text, 1)
               IN  [k \in 1..Len(m) |-> Trim(m[k])]
          ELSE <<>>) \o SeenNames(Tail(reviews))

\* the position at which name is first seen
FirstAt(seen, name) == CHOOSE k \in 1..Len(seen) :
                          seen[k] = name /\ \A j \in 1..(k - 1) : seen[j] # name

\* no duplicates, nothing of the exclusion set, first-seen order
NamesDedupOrdered(r) ==
    LET names == r.mentionedNames
        seen == SeenNames(r.reviews)
    IN  /\ \A i, j \in 1..Len(names) : names[i] = names[j] => i = j
        /\ \A i \in 1..Len(names) : names[i] \notin excludeWords
        /\ \A i \in 1..Len(names) : Includes(seen, names[i])
        /\ \A i, j \in 1..Len(names) :
              i < j => FirstAt(seen, names[i]) < FirstAt(seen, names[j])

\* no line break (line feed or carriage return) inside a name
NoLineBreak(name) == \A k \in 1..Len(name) : name[k] \notin LineTerminator

\* C6: mentionedNames has no duplicate entries, no string of the exclusion set,
\* no string with an embedded line break, and lists the names in the order in
\* which they were first seen across the record's reviews.
C6_MentionedNames ==
    \A r \in AllRecords :
        /\ NamesDedupOrdered(r)
        /\ \A i \in 1..Len(r.mentionedNames) : NoLineBreak(r.mentionedNames[i])

\* the positions of urls whose record is the r-th of the accumulator
UrlIndexOf(r) == {k \in 1..Len(urls) : urls[k] = resultsData[r].url}

\* C11: listings are processed one at a time in discovery order and the
\* accumulator is an order-preserving subsequence of urls: every record is the
\* record of a URL whose pass is over, records are in the order of their URLs,
\* each URL has at most one record, and the record under construction is that
\* of the URL of the current pass.
C11_DiscoveryOrder ==
    /\ \A r \in 1..Len(resultsData) :
          \E k \in UrlIndexOf(r) :
             /\ k < idx
             /\ \A r2 \in 1..(r - 1) : \E k2 \in UrlIndexOf(r2) : k2 < k
    /\ \A i \in 1..Len(urls) : Cardinality(RecordsOf(i)) <= 1
    /\ (pc \in PassPcs \ {"goto"}) => data.url = urls[idx]

\* two listings were processed and both have their record
C11_Witness ==
    /\ pc = "done"
    /\ Len(resultsData) >= 2
    /\ resultsData[1].url = urls[1]

\* the positions at which the scalar fields of a loaded listing are resolved
FieldPcs == {"name", "buttons", "website", "rating", "count"}

\* C12: the Field Resolver never propagates an error upward: when resolving a
\* scalar field throws, the listing is not failed (its pass does not end in the
\* listing-level catch), the later stages run and the record is appended.
C12_FieldErrorsSwallowed ==
    \A k \in 1..Len(thrown) :
        thrown[k].at \in FieldPcs =>
            /\ thrown[k].idx \notin dropped
            /\ PassOver(thrown[k].idx) => RecordsOf(thrown[k].idx) # {}

\* a JavaScript string: a text, not null and not undefined
IsString(v) == v # Null /\ v # Undefined

\* C13: in every record of the accumulator name, address, phone and website are
\* present and hold a string (possibly empty), never null, whatever the page's
\* elements return for their text content, label or link target.
C13_CoreFieldsStrings ==
    \A r \in 1..Len(resultsData) :
        /\ IsString(resultsData[r].name)
        /\ IsString(resultsData[r].address)
        /\ IsString(resultsData[r].phone)
        /\ IsString(resultsData[r].website)

\* the steps of the Review Harvester after the tab was looked for
HarvestPcs == {"waitReview", "reviewScroll", "expand", "extract", "chips"}

\* the listing page of the current pass is loaded
InPass == pc \in PassPcs \ {"goto"}

\* C14: when the listing page has no reviews tab, the Review Harvester goes
\* directly to its end: it executes no first-review wait, scroll, text
\* expansion, extraction or category-scanning step, and reviews stays empty.
C14_NoReviewsTab ==
    (InPass /\ ~dom.reviewsTab) =>
        /\ pc \notin HarvestPcs
        /\ data.reviews = <<>>

\* the pass of urls[i] reached the wait for a first review element and the wait
\* timed out: no review element loads on the page, or the wait threw
WaitTimedOut(i) ==
    \/ \E k \in 1..Len(thrown) : thrown[k].at = "waitReview" /\ thrown[k].idx = i
    \/ /\ PageOf(urls[i]).reviewsTab
       /\ PageOf(urls[i]).loaded = 0
       /\ \A k \in 1..Len(thrown) :
             thrown[k].idx = i =>
                thrown[k].at \notin {"goto", "buttons", "website", "reviewsTab"}

\* C15: when the wait for a first review element times out, the Review
\* Harvester ends with the reviews already present (none) and the listing is not
\* failed: no later harvesting step runs, and once the pass is over the record
\* is in the accumulator.
C15_WaitTimeoutKeepsListing ==
    \A i \in 1..Len(urls) :
        WaitTimedOut(i) =>
            /\ (idx = i /\ InPass) => pc \notin {"reviewScroll", "expand", "extract"}
            /\ PassOver(i) => \E r \in RecordsOf(i) : resultsData[r].reviews = <<>>

\* a token the filter must drop: a non-document file extension at its end, a
\* tooling-artifact substring or a placeholder domain, in any letter case
JunkToken(t) ==
    LET l == ToLowerCase(t)
    IN  \/ \E ext \in {<<".","p","n","g">>, <<".","j","p","g">>, <<".","j","p","e","g">>, <<".","g","i","f">>, <<".","c","s","s">>, <<".","j","s">>} :
              EndsWith(l, ext)
        \/ \E sub \in {<<"s","e","n","t","r","y">>, <<"w","i","x">>, <<"n","o","d","e","_","m","o","d","u","l","e","s">>, <<"e","x","a","m","p","l","e",".","c","o","m">>,
                       <<"d","o","m","a","i","n",".","c","o","m">>} : Contains(l, sub)

\* the tokens of a list that are not junk, each once, in order of first occurrence
RECURSIVE Survivors(_, _)
Survivors(tokens, seen) ==
    IF tokens = <<>> THEN <<>>
    ELSE (IF tokens[1] \in seen \/ JunkToken(tokens[1]) THEN <<>> ELSE <<tokens[1]>>)
         \o Survivors(Tail(tokens), seen \cup {tokens[1]})

\* the surviving tokens joined by ", "
RECURSIVE CommaJoined(_)
CommaJoined(tokens) ==
    IF tokens = <<>> THEN <<>>
    ELSE tokens[1] \o (IF Len(tokens) = 1 THEN <<>>
                       ELSE <<",", " ">> \o CommaJoined(Tail(tokens)))

ExpectedEmail(content) == CommaJoined(Survivors(EmailMatches(content, 1), {}))

ScenarioContent == <<"c","o","n","t","a","c","t","@","e","x","a","m","p","l","e",".","c","o","m"," ","i","n","f","o","@","r","e","a","l","b","i","z",".","c","o","m">>

ResponseMatchesRun ==
    /\ res.ended <= 1
    /\ res.ended = 1 =>
          /\ pc = "done"
          /\ res.success <=> outcome = "ok"
          /\ res.success => res.count = Len(resultsData)
          /\ ~res.success => res.error = thrown[Len(thrown)].at

\* C17: every scrape request is answered exactly once, after its pipeline has
\* finished: with success and the number of records returned, or with the error
\* when the body did not parse or the pipeline failed fatally.
C17_AnsweredOnce ==
    /\ [](variant = "server" => ResponseMatchesRun)
    /\ (variant = "server" /\ pc = "request") ~> (res.ended = 1)

\* the closed vocabulary: literal phrase, tag
Vocabulary ==
    {<<<<"I","d","e","n","t","i","f","i","e","d"," ","a","s"," ","w","o","m","e","n","-","o","w","n","e","d">>, <<"W","o","m","e","n","-","o","w","n","e","d">>>>,
     <<<<"I","d","e","n","t","i","f","i","e","d"," ","a","s"," ","v","e","t","e","r","a","n","-","o","w","n","e","d">>, <<"V","e","t","e","r","a","n","-","o","w","n","e","d">>>>,
     <<<<"I","d","e","n","t","i","f","i","e","d"," ","a","s"," ","B","l","a","c","k","-","o","w","n","e","d">>, <<"B","l","a","c","k","-","o","w","n","e","d">>>>,
     <<<<"I","d","e","n","t","i","f","i","e","d"," ","a","s"," ","L","a","t","i","n","o","-","o","w","n","e","d">>, <<"L","a","t","i","n","o","-","o","w","n","e","d">>>>}

\* the tags of a record: none when the record has no attributes
TagsOf(rec) == IF rec.attributes = NoList THEN <<>> ELSE rec.attributes

\* the attribute step of the record's pass did not throw
AttrsRan(rec) ==
    \A k \in 1..Len(thrown) : thrown[k].at = "attrs" => urls[thrown[k].idx] # rec.url

\* C18: a record's attributes contain a tag of the closed vocabulary exactly when
\* the about panel of its listing contains the tag's literal phrase, each tag at
\* most once and nothing else; a listing without an about panel has no attributes.
C18_ClosedVocabulary ==
    \A r \in 1..Len(resultsData) :
        LET rec  == resultsData[r]
            p    == PageOf(rec.url)
            tags == TagsOf(rec)
        IN  AttrsRan(rec) =>
              /\ p.aboutTab =>
                    \A v \in Vocabulary :
                        (\E t \in 1..Len(tags) : tags[t] = v[2]) <=> Contains(p.content, v[1])
              /\ ~p.aboutTab => tags = <<>>
              /\ \A t \in 1..Len(tags) : \E v \in Vocabulary : tags[t] = v[2]
              /\ \A t, u \in 1..Len(tags) : tags[t] = tags[u] => t = u

\* the step with which the scroll loop stops
LoopStops == InScrollLoop /\ pc' = "collect"

\* the scroll of the iteration that stops the loop rendered nothing new; when the
\* loop stops before scrolling, an earlier scroll may have stalled, unless there
\* was none and the feed has more to render
GrowthStalled ==
    IF pc = "scrollStep" THEN rendered' = rendered
    ELSE scrolls > 0 \/ rendered = Len(feed)

\* C19: when the scroll loop stops, MAX_RESULTS distinct listing URLs can be
\* collected from the rendered feed, or the growth of the feed had stalled.
C19_StopsOnTargetOrStall ==
    [][LoopStops => (Distinct(feed, rendered') >= MAX_RESULTS \/ GrowthStalled)]_vars

\* the extraction loop has ended: every element in the page was read, or the
\* cap was reached
ExtractionOver == rv.read = rv.visible \/ ReviewsFull(data.reviews)

\* C20: within one listing a review element is read only after the reviews view
\* was activated, all scrolls to the bottom of the container were done (when
\* there is a container) and all clicks on the See more buttons were made; a
\* review is kept only from an element read; and the chip scan starts only when
\* the extraction is over.
C20_LoadBeforeRead ==
    /\ rv.read > 0 =>
          /\ primary.tab = "reviews"
          /\ dom.container => rv.i = ReviewScrolls
          /\ rv.clicks = Min(Len(MoreButtons(dom, rv.visible)), ExpandCap)
    /\ Len(data.reviews) <= rv.read
    /\ (pc \in {"chips", "names"} \/ data.reviewCategories # <<>>) => ExtractionOver

\* reviews were read after three scrolls and at least one click, and the chip
\* scan is next
C20_Witness ==
    /\ pc = "chips"
    /\ rv.read >= 2
    /\ rv.i = ReviewScrolls
    /\ rv.clicks > 0

\* the positions of the Review Harvester, and its steps before the chip scan
ReviewPcs == {"reviewsTab", "waitReview", "reviewScroll", "expand", "extract",
              "chips", "names"}

Loading == ReviewsTab \/ WaitReview \/ ReviewScroll \/ Expand \/ Extract

\* how far a position is from the end of the harvester
HarvestRank(p) ==
    CASE p = "reviewsTab" -> 7
      [] p = "waitReview" -> 6
      [] p = "reviewScroll" -> 5
      [] p = "expand" -> 4
      [] p = "extract" -> 3
      [] p = "chips" -> 2
      [] p = "names" -> 1
      [] OTHER -> 0

\* what the loop of the position has left to do, at most
Remaining ==
    CASE pc = "reviewScroll" -> ReviewScrolls - rv.i
      [] pc = "expand" -> ExpandCap - rv.clicks
      [] pc = "extract" -> Len(dom.reviewEls) - rv.read
      [] OTHER -> 0

\* a measure that every step of the harvester must lower
HarvestMeasure ==
    HarvestRank(pc) * (Len(dom.reviewEls) + ExpandCap + ReviewScrolls + 1) + Remaining

ClickThrew == \E k \in 1..Len(thrown) : thrown[k].at = "expand"

HarvestAdvances == (pc \in ReviewPcs) => (HarvestMeasure > HarvestMeasure')

ClickSwallowed ==
    (pc = "expand" /\ thrown' # thrown) =>
        (pc' = "expand" /\ rv'.clicks = rv.clicks + 1)

AllPassesOver ==
    /\ idx = Len(urls) + 1
    /\ pc \notin PassPcs
    /\ \A i \in 1..Len(urls) : i \in dropped \/ RecordsOf(i) # {}

\* a file is written by its export step only, and only once
WritesOnce ==
    /\ csvFile' # csvFile => (pc = "exportCsv" /\ ~csvFile.written)
    /\ jsonFile' # jsonFile => (pc = "exportJson" /\ ~jsonFile.written)

\* C22: export ordering.  A file is written only when every discovered URL has
\* finished its pass, never while listings are processed; each file is written
\* at most once, with the rows of the complete accumulator; and a run that
\* completes has written both.
C22_ExportOrdering ==
    /\ []((csvFile.written \/ jsonFile.written) => AllPassesOver)
    /\ [](csvFile.written => csvFile.rows = CsvOf(resultsData))
    /\ [](jsonFile.written => jsonFile.rows = JsonOf(resultsData))
    /\ [](outcome = "ok" => (csvFile.written /\ jsonFile.written))
    /\ [][WritesOnce]_vars

\* a completed run with a record and a dropped listing, both files written
C22_Witness ==
    /\ outcome = "ok"
    /\ dropped # {}
    /\ Len(resultsData) >= 1
    /\ csvFile.written /\ jsonFile.written

\* the accumulator is left as it is, or grows by one record at its end
AppendOnly ==
    \/ resultsData' = resultsData
    \/ /\ Len(resultsData') = Len(resultsData) + 1
       /\ SubSeq(resultsData', 1, Len(resultsData)) = resultsData

\* the record under construction is the object that the push appends: a step
\* that assigns to it runs only while it has not been appended (the next pass
\* starts with a new object)
BuiltBeforePush ==
    (data' # data /\ pc # "goto") => (idx \in 1..Len(urls) /\ RecordsOf(idx) = {})

\* C23: an appended record is never mutated, removed or reordered: every step
\* keeps the records appended so far as they are, the accumulator grows only at
\* its end, and the object appended is not assigned to afterwards.
C23_AppendOnly == [][AppendOnly /\ BuiltBeforePush]_vars

\* a later listing's pass is filling its record while an earlier record is in the
\* accumulator
C23_Witness ==
    /\ pc = "names"
    /\ idx >= 2
    /\ Len(resultsData) >= 1
    /\ data.reviews # <<>>

\* a value that is a non-empty text
NonEmpty(v) == v \notin {Null, Undefined, <<>>}

HasContent(review) ==
    NonEmpty(review.reviewer) \/ NonEmpty(review.text) \/ NonEmpty(review.rating)

\* the review element k of the page yields a reviewer, a rating or a text
Yields(k) ==
    LET el == dom.reviewEls[k]
    IN  \/ el.hasReviewer /\ (NonEmpty(el.reviewerAria) \/ NonEmpty(el.reviewerText))
        \/ NonEmpty(el.stars)
        \/ NonEmpty(IF k \in rv.expanded THEN el.full ELSE el.short)

YieldingRead == {k \in 1..rv.read : Yields(k)}

\* C24: a review is retained only if its reviewer, text or rating is non-empty;
\* an element that yields none of the three is not added and does not count
\* toward the cap: the reviews are those of the yielding elements read (fewer
\* only if a read threw), and the loop stops early only at 10 retained reviews.
C24_RetainedHaveContent ==
    /\ \A r \in AllRecords : \A k \in 1..Len(r.reviews) : HasContent(r.reviews[k])
    /\ Len(data.reviews) <= Cardinality(YieldingRead)
    /\ (\A k \in 1..Len(thrown) : thrown[k].at # "extract") =>
          Len(data.reviews) = Cardinality(YieldingRead)
    /\ (pc = "chips" /\ rv.read < rv.visible) => Len(data.reviews) = ReviewCap

\* an element with a time only was read and skipped, and the cap was reached one
\* element later
C24_Witness ==
    /\ pc = "chips"
    /\ thrown = <<>>
    /\ Len(data.reviews) = ReviewCap
    /\ rv.read = ReviewCap + 1
    /\ \E k \in 1..rv.read : ~Yields(k)

\* the last button of the page whose tag contains the word, or 0
LastTagged(word) ==
    LET hits == {k \in 1..Len(dom.buttons) : Contains(dom.buttons[k].itemId, word)}
    IN  IF hits = {} THEN 0 ELSE CHOOSE k \in hits : \A j \in hits : j <= k

\* the label attribute of a button, or its text when it has none
LabelOrText(btn) == IF NonEmpty(btn.aria) THEN btn.aria ELSE btn.text

\* the buttons and the link were resolved
FieldsResolved == pc \in {"rating", "count", "attrs", "reviewsTab"}

EmailStepIdle ==
    /\ pc \notin EmailPcs
    /\ page2 = "none"
    /\ data.email = <<>>

\* C26: the Email Harvester runs only if website resolved to a non-empty value:
\* while the record's website is empty (the empty string or null) the email step
\* does not run, and a record appended with an empty website has an empty email.
C26_EmailNeedsWebsite ==
    /\ ~NonEmpty(data.website) => EmailStepIdle
    /\ \A r \in 1..Len(resultsData) :
          ~NonEmpty(resultsData[r].website) => resultsData[r].email = <<>>

\* a record without website was appended with an empty email although the
\* website's content holds an address that the filter keeps
C26_Witness ==
    /\ Len(resultsData) = 1
    /\ resultsData[1].website = Null
    /\ resultsData[1].email = <<>>
    /\ ExpectedEmail(dom.site) # <<>>
    /\ page2 = "none"

\* a step of the email step, or of its catch, leaves the primary page alone
PrimaryUntouched == (pc \in EmailPcs) => (primary' = primary)

\* C27: the Email Harvester leaves the primary page unchanged: no step of a
\* listing's email step, succeeding or failing, changes the primary page's
\* location, active view or scroll state, and after the step the primary page
\* still shows the listing.
C27_PrimaryUnchanged ==
    /\ [][PrimaryUntouched]_vars
    /\ []((pc \in EmailPcs \cup {"push"}) => primary.loc = urls[idx])

\* the email step has run to its end while the primary page shows the listing's
\* reviews view, scrolled three times
C27_Witness ==
    /\ pc = "push"
    /\ page2 = "closed"
    /\ primary = [loc |-> urls[idx], tab |-> "reviews", scroll |-> ReviewScrolls]

\* the run has ended: normally, in the outer catch, or by an exception that
\* nothing caught
RunEnded == pc = "done" /\ outcome \in {"ok", "fatal", "crashed"}

\* C28: whenever a run ends after the browser was launched, the browser has been
\* closed.
C28_BrowserClosed == (RunEnded /\ browser # "none") => browser = "closed"

\* the operations whose failure leaves a part of their work done: how much is
\* not recorded in thrown
PartialPcs == {"extract", "chips"}

\* both pipelines have run on the query, the second one has ended, the directory
\* gave both the same URLs and the same operations threw in both
SameDrive ==
    /\ prev.variant # "none"
    /\ pc = "done"
    /\ urls = prev.urls
    /\ thrown = prev.thrown
    /\ \A k \in 1..Len(thrown) : thrown[k].at \notin PartialPcs

\* C29: scraper.js and runScraper are equivalent: driven by the same directory,
\* pages and websites, with the same failures, they end with the same
\* accumulator, the same records in the same order with the same fields.
C29_PipelinesEquivalent == SameDrive => resultsData = prev.resultsData

\* the review harvest of listing i was cut short by a throw before the
\* category scan (the clicks of the expansion swallow theirs)
HarvestCut(i) ==
    \E k \in 1..Len(thrown) :
        /\ thrown[k].idx = i
        /\ thrown[k].at \in ReviewPcs \ {"expand", "chips"}

\* the category scan of listing i threw
ChipScanThrew(i) ==
    \E k \in 1..Len(thrown) : thrown[k].idx = i /\ thrown[k].at = "chips"

\* C30: for every appended record whose review harvest reached the category
\* scan, mentionedNames is the first-seen-ordered, duplicate-free list of the
\* accepted name matches over the texts of its retained reviews, whatever
\* happened during the category scan (a throw of the chip scan included).
C30_NamesWhateverChips ==
    \A r \in 1..Len(resultsData) :
        (\A i \in UrlIndexOf(r) : ~HarvestCut(i)) =>
            resultsData[r].mentionedNames = MentionedNames(resultsData[r].reviews)

\* the positions after the scroll loop when no listing pass is entered
AfterScrollPcs == {"collect", "exportCsv", "exportJson", "close", "done"}

\* the results container has appeared, none of its articles is rendered (the
\* first count of the scroll loop is zero and the scroll brings none), the page
\* has not left the results, and no operation of the run has thrown
EmptyFeed ==
    /\ pc \in {"scrollQuery", "scrollStep"} \cup AfterScrollPcs
    /\ rendered = 0
    /\ primary.loc = 0
    /\ thrown = <<>>

\* what the run is at each position when the feed renders nothing
EmptyRun ==
    /\ pc \in {"scrollQuery", "scrollStep"} => scrolls = 0
    /\ pc \in AfterScrollPcs => scrolls = 1
    /\ pc \in AfterScrollPcs \ {"collect"} => urls = <<>> /\ resultsData = <<>>
    /\ pc \in {"exportJson", "close", "done"} => csvFile = Written(<<>>)
    /\ pc \in {"close", "done"} => jsonFile = Written(<<>>)
    /\ pc = "done" => outcome = "ok" /\ browser = "closed"

\* no listing pass follows the collection on a feed that rendered nothing
NoPassEntered == (EmptyFeed /\ pc = "collect") => pc' \notin PassPcs

\* C32: when the results container appears but renders zero listing elements,
\* the scroll loop performs exactly one scroll and stops, and the run does not
\* fail: it goes on to the collection, which finds no URL, enters no listing
\* pass, writes both exports with no records and completes.
C32_EmptyFeedCompletes ==
    /\ [](EmptyFeed => EmptyRun)
    /\ [][NoPassEntered]_vars
    /\ (EmptyFeed /\ pc = "scrollStep") ~> (pc \notin {"scrollQuery", "scrollStep"})
    /\ (EmptyFeed /\ pc = "collect") ~> (pc = "done")

\* a run on a feed that rendered nothing has completed with both exports empty
C32_Witness ==
    /\ EmptyFeed
    /\ pc = "done"
    /\ outcome = "ok"
    /\ scrolls = 1
    /\ urls = <<>>
    /\ csvFile = Written(<<>>)
    /\ jsonFile = Written(<<>>)

\* both overlapping runs have completed: each has returned its accumulator
BothCompleted ==
    /\ pc = "done"
    /\ outcome = "ok"
    /\ prev.run.pc = "done"
    /\ prev.run.outcome = "ok"

\* the records of a run are those of the URLs it collected itself
OwnRecords(run) ==
    /\ \A r \in 1..Len(run.resultsData) : run.resultsData[r].url \in Range(run.urls)
    /\ run.res.ended = 1 /\ run.res.success => run.res.count = Len(run.resultsData)

\* results.csv and results.json hold the records of the same run
FilesOfOneRun ==
    \E records \in {resultsData, prev.run.resultsData} :
        /\ csvFile = Written(CsvOf(records))
        /\ jsonFile = Written(JsonOf(records))

\* C31: when two scrape requests overlap, each run has its own browser and its
\* own accumulator (no record of one run is in the sequence the other returns),
\* and once both runs have completed results.csv and results.json hold the
\* records of one and the same run.
C31_OverlappingRuns ==
    prev.variant = "waiting" =>
        /\ OwnRecords(ThisRun)
        /\ OwnRecords(prev.run)
        /\ BothCompleted => FilesOfOneRun

=============================================================================
